---------------------------- MODULE Spec2Model ----------------------------
(***************************************************************************)
(* SD-JWT credential validation of identity_credential:                    *)
(* SdJwtCredentialValidator (validator/sd_jwt/validator.rs), its options    *)
(* (kb_validation_options.rs) and its errors (error.rs).                    *)
(*                                                                         *)
(* A validator call is a pure function of the token, the DID documents,    *)
(* the options, the validator's hasher and the clock.  The state machine   *)
(* holds those inputs; one action per way of changing an input (parsing a  *)
(* different token, attaching a KB-JWT, an options setter, a new           *)
(* validator, the clock) and one action per validator call, which records  *)
(* the call's result in `last`.                                            *)
(*                                                                         *)
(* Results carry the source line of validator.rs whose return statement    *)
(* (or `?`) produced them, so "the check at line n was reached" is          *)
(* `res.line >= n`.                                                         *)
(***************************************************************************)
EXTENDS Integers, Sequences, FiniteSets

VARIABLES sd_jwt,            \* the SdJwt handed to the validator
          presented,         \* the SdJwt the attached KB-JWT was built for
          options,           \* KeyBindingJwtValidationOptions
          holder_doc,        \* the holder's DID document handed to the validator
          issuer_docs,       \* the trusted issuers' DID documents
          hasher,            \* SdJwtCredentialValidator.1 (alg_name of the hasher)
          now,               \* Timestamp::now_utc()
          edits,             \* number of input changes made so far
          last,              \* the last validator call and its result
          issued,            \* the object, its concealable paths, the SdJwtVc
          ops,               \* the calls made on the presentation builder
          hist,              \* the builder before and after each call
          finished,          \* what finish returned
          disclosed,         \* the disclosed object of the finished token
          vc_input,          \* the claims and disclosures handed to the VC parser
          vc_parsed,         \* what try_from_sd_jwt_claims returned
          locks,             \* the read and write guards held on each document
          binding_last       \* the last call made through the binding layer

validator_vars ==
  <<sd_jwt, presented, options, holder_doc, issuer_docs, hasher, now, edits, last>>

builder_vars == <<issued, ops, hist, finished, disclosed>>

vc_vars == <<vc_input, vc_parsed>>

guard_vars == <<locks, binding_last>>

vars == <<validator_vars, builder_vars, vc_vars, guard_vars>>

---------------------------------------------------------------------------
(* Bounds *)

\* Timestamps range over 0..MaxTime.
MaxTime == 2

\* At most MaxEdits inputs are changed, starting from the well-formed token.
MaxEdits == 2

\* At most MaxOps calls of conceal, conceal_all and disclose on a builder.
MaxOps == 2

\* At most MaxDisclosed disclosures in a token whose claims are parsed.
MaxDisclosed == 1

\* At most MaxReaders read guards held on a document by other code.
MaxReaders == 1

Time == 0 .. MaxTime

---------------------------------------------------------------------------
(* Option<T>: None is <<>>, Some(x) is <<x>> *)

None == << >>

Some(x) == << x >>

IsSome(o) == Len(o) = 1

Unwrap(o) == o[1]

---------------------------------------------------------------------------
(* Values *)

SHA_ALG_NAME == "sha-256"

Hashers == {"sha-256", "sha-512"}

DIDs == {"did:issuer", "did:holder", "did:other"}

Keys == {"issuer-key", "holder-key", "other-key"}

NONCE == "nonce-test"

VERIFIER_ID == "did:test:verifier"

Nonces == {NONCE, "nonce-other"}

Auds == {VERIFIER_ID, "did:test:other"}

\* A verification method: its fragment and its public key JWK (None when
\* the method data is not a JWK).
Method(fragment, jwk) == [fragment |-> fragment, jwk |-> jwk]

IssuerDoc ==
  [id |-> "did:issuer", methods |-> {Method("key-1", Some("issuer-key"))}]

HolderDoc ==
  [id |-> "did:holder",
   methods |-> {Method("key-1", Some("holder-key")), Method("key-2", None)}]

OtherDoc ==
  [id |-> "did:other", methods |-> {Method("key-1", Some("other-key"))}]

HolderDocs == {HolderDoc, OtherDoc}

TrustedIssuerLists == {<<IssuerDoc>>, <<OtherDoc>>, <<IssuerDoc, OtherDoc>>, << >>}

\* A kid string "<did>#<fragment>" is the pair <<did, fragment>>; a kid that
\* is not a DID URL is a one-element string.
KidStr(did, fragment) == <<did, fragment>>

BareKid == <<"key-1">>

\* The JSON of a cnf jwk: a well-formed JWK of a key, or something else.
JwkJson(key) == <<"OKP", key>>

BadJwkJson == <<"not-a-jwk">>

\* RequiredKeyBinding (the cnf claim).
CnfKid(kid) == [kind |-> "Kid", v |-> kid]

CnfJwk(json) == [kind |-> "Jwk", v |-> json]

CnfOther == [kind |-> "Other", v |-> << >>]

Cnfs ==
  { None } \cup
  { Some(CnfKid(KidStr(d, f))) : d \in {"did:holder", "did:other"},
                                 f \in {"key-1", "key-2", "key-9"} } \cup
  { Some(CnfKid(BareKid)), Some(CnfJwk(JwkJson("holder-key"))),
    Some(CnfJwk(JwkJson("other-key"))), Some(CnfJwk(BadJwkJson)),
    Some(CnfOther) }

Disclosures == {"D1", "D2", "DX"}

---------------------------------------------------------------------------
(* Hasher *)

\* Hasher::encoded_digest: collision-free, so the digest is the pair of the
\* algorithm and the hashed text.
EncodedDigest(alg, text) == [alg |-> alg, of |-> text]

---------------------------------------------------------------------------
(* Wire form: a string is a sequence of segments; `~` is the separator *)

Tilde == [sep |-> TRUE, body |-> << >>]

Seg(x) == [sep |-> FALSE, body |-> << x >>]

RECURSIVE JoinDisclosures(_)
JoinDisclosures(ds) ==
  IF ds = << >> THEN << >>
  ELSE <<Seg(Head(ds)), Tilde>> \o JoinDisclosures(Tail(ds))

\* SdJwt::presentation / Display: <JWS>~<D1>~...~<Dn>~[<KB-JWT>]
Presentation(tok) ==
  <<Seg(tok.jws), Tilde>> \o JoinDisclosures(tok.disclosures)
     \o (IF IsSome(tok.kb) THEN <<Seg(Unwrap(tok.kb))>> ELSE << >>)

\* str::rfind('~'): the index of the last `~` (0 when there is none).
RFindTilde(s) ==
  LET idx == {i \in 1 .. Len(s) : s[i].sep}
  IN IF idx = {} THEN 0 ELSE CHOOSE i \in idx : \A j \in idx : j <= i

\* str::split_once('~').0: the text before the first `~`.
SplitOnceTilde(s) ==
  LET idx == {i \in 1 .. Len(s) : s[i].sep}
      first == CHOOSE i \in idx : \A j \in idx : i <= j
  IN SubSeq(s, 1, first - 1)

---------------------------------------------------------------------------
(* DID URLs, DID documents, keys *)

\* DIDUrl::parse: Some([did, fragment]) for "<did>#<fragment>", else None.
DIDUrlParse(kid) ==
  IF Len(kid) = 2 /\ kid[1] \in DIDs
  THEN Some([did |-> kid[1], fragment |-> kid[2]])
  ELSE None

\* CoreDocument::resolve_method: the method of the document the DID URL names.
ResolveMethod(doc, method_id) ==
  LET found == {m \in doc.methods :
                  doc.id = method_id.did /\ m.fragment = method_id.fragment}
  IN IF found = {} THEN None ELSE Some(CHOOSE m \in found : TRUE)

\* Jwk::from_json_value
JwkFromJson(json) ==
  IF Len(json) = 2 /\ json[1] = "OKP" THEN Some(json[2]) ELSE None

\* JwsVerifier::verify: a signature made with a key verifies under that key only.
VerifySignature(signedBy, public_key) == signedBy = public_key

\* Timestamp::from_unix: None outside the representable range.
FromUnix(secs) == IF secs \in Time THEN Some(secs) ELSE None

---------------------------------------------------------------------------
(* KeyBindingJwtError, with the line of validator.rs that returned it *)

KbOk(line) ==
  [tag |-> "Ok", ctx |-> "-", msg |-> "-",
   expected |-> None, found |-> None, line |-> line]

KbErr(tag, ctx, msg, line) ==
  [tag |-> tag, ctx |-> ctx, msg |-> msg,
   expected |-> None, found |-> None, line |-> line]

\* UnexpectedValue { expected, found }
KbUnexpected(tag, expected, found, line) ==
  [tag |-> tag, ctx |-> "-", msg |-> "-",
   expected |-> Some(expected), found |-> Some(found), line |-> line]

---------------------------------------------------------------------------
(* SdJwtCredentialValidator::validate_key_binding_jwt *)

\* sd_jwt.required_key_bind()
RequiredKeyBind(tok) == tok.jws.claims.cnf

\* sd_jwt.key_binding_jwt()
KeyBindingJwtOf(tok) == tok.kb

\* Mutant: a cnf that is neither kid nor jwk counts as no requirement.
KbNotRequired_IgnoreOther(tok) ==
  \/ ~IsSome(RequiredKeyBind(tok))
  \/ Unwrap(RequiredKeyBind(tok)).kind \notin {"Kid", "Jwk"}

\* let Some(required_kb) = sd_jwt.required_key_bind() else { return Ok(()) }
KbNotRequired(tok) == ~IsSome(RequiredKeyBind(tok))

\* Mutant: a missing KB-JWT is reported only for a kid or jwk binding.
KbAbsent_SupportedOnly(tok) ==
  /\ ~IsSome(KeyBindingJwtOf(tok))
  /\ IsSome(RequiredKeyBind(tok))
  /\ Unwrap(RequiredKeyBind(tok)).kind \in {"Kid", "Jwk"}

\* let Some(kb_jwt) = sd_jwt.key_binding_jwt() else { return Err(Missing..) }
KbAbsent(tok) == ~IsSome(KeyBindingJwtOf(tok))

\* Mutant: the document's id is not compared with the DID of kid.
HolderDidDiffers_Unchecked(holder_document, method_id) == FALSE

\* holder_document.as_ref().id() != method_id.did()
HolderDidDiffers(holder_document, method_id) ==
  holder_document.id # method_id.did

\* resolve_method(..).and_then(|method| method.data().public_key_jwk())
HolderMethodJwk(holder_document, method_id) ==
  LET method == ResolveMethod(holder_document, method_id)
  IN IF IsSome(method) THEN Unwrap(method).jwk ELSE None

\* let holder_pk = match required_kb { .. }: the key, or the error returned.
HolderPk(required_kb, holder_document) ==
  IF required_kb.kind = "Jwk" THEN
    LET jwk == JwkFromJson(required_kb.v)
    IN IF IsSome(jwk)
       THEN [res |-> KbOk(271), key |-> jwk]
       ELSE [res |-> KbErr("DeserializationError", "-",
                           "failed to deserialize 'cnf' JWK", 273),
             key |-> None]
  ELSE IF required_kb.kind = "Kid" THEN
    LET parsed == DIDUrlParse(required_kb.v)
    IN IF ~IsSome(parsed)
       THEN [res |-> KbErr("MethodDataLookupError", "Holder",
                           "could not parse kid as a DID Url", 275),
             key |-> None]
       ELSE IF HolderDidDiffers(holder_document, Unwrap(parsed))
       THEN [res |-> KbErr("DocumentMismatch", "Holder", "-", 281),
             key |-> None]
       ELSE LET jwk == HolderMethodJwk(holder_document, Unwrap(parsed))
            IN IF IsSome(jwk)
               THEN [res |-> KbOk(294), key |-> jwk]
               ELSE [res |-> KbErr("MethodDataLookupError", "Holder",
                       "could not extract JWK from a method identified by kid",
                       289),
                     key |-> None]
  ELSE [res |-> KbErr("UnsupportedCnfMethod", "-", "-", 296), key |-> None]

\* Decoder::decode_compact_serialization of the KB-JWT's text
KbDecodes(kb_jwt) == kb_jwt.wellFormed

\* decoded.verify(&self.0, &holder_pk)
KbSignatureVerifies(kb_jwt, holder_pk) ==
  VerifySignature(kb_jwt.signedBy, holder_pk)

\* Mutant: an absent _sd_alg matches every hasher.
HasherDiffers_NoDefault(tok, h) ==
  LET alg == tok.jws.claims.sd_alg
  IN IsSome(alg) /\ Unwrap(alg) # h

\* _sd_alg.as_deref().unwrap_or(SHA_ALG_NAME) != hasher.alg_name()
HasherDiffers(tok, h) ==
  LET alg == tok.jws.claims.sd_alg
  IN (IF IsSome(alg) THEN Unwrap(alg) ELSE SHA_ALG_NAME) # h

\* Mutant: the digest stops before the last `~`.
SdHashDigest_BeforeTilde(tok, h) ==
  LET sd_jwt_str == Presentation(tok)
      last_tilde_index == RFindTilde(sd_jwt_str)
  IN EncodedDigest(h, SubSeq(sd_jwt_str, 1, last_tilde_index - 1))

\* hasher.encoded_digest(&sd_jwt_str[..last_tilde_index + 1])
SdHashDigest(tok, h) ==
  LET sd_jwt_str == Presentation(tok)
      last_tilde_index == RFindTilde(sd_jwt_str)
  IN EncodedDigest(h, SubSeq(sd_jwt_str, 1, last_tilde_index))

\* Mutant: the digest is computed and never compared.
SdHashDiffers_Unchecked(sd_hash, digest) == FALSE

\* if sd_hash != digest.as_str()
SdHashDiffers(sd_hash, digest) == sd_hash # digest

\* Mutant: the comparison is inverted.
NonceDiffers_Inverted(opts, kb_jwt) ==
  IsSome(opts.nonce) /\ Unwrap(opts.nonce) = kb_jwt.claims.nonce

\* if let Some(nonce) = options.nonce { if nonce != kb_jwt.claims().nonce .. }
NonceDiffers(opts, kb_jwt) ==
  IsSome(opts.nonce) /\ Unwrap(opts.nonce) # kb_jwt.claims.nonce

\* if let Some(aud) = options.aud { if aud != kb_jwt.claims().aud .. }
AudDiffers(opts, kb_jwt) ==
  IsSome(opts.aud) /\ Unwrap(opts.aud) # kb_jwt.claims.aud

\* Mutant: an iat equal to earliest_issuance_date is rejected too.
TooEarly_OrEqual(opts, issuance_date) ==
  IsSome(opts.earliest_issuance_date)
    /\ issuance_date <= Unwrap(opts.earliest_issuance_date)

\* if let Some(earliest) = .. { if issuance_date < earliest .. }
TooEarly(opts, issuance_date) ==
  IsSome(opts.earliest_issuance_date)
    /\ issuance_date < Unwrap(opts.earliest_issuance_date)

\* Mutant: an iat equal to latest_issuance_date is rejected too.
TooLate_OrEqual(opts, issuance_date) ==
  IsSome(opts.latest_issuance_date)
    /\ issuance_date >= Unwrap(opts.latest_issuance_date)

\* if let Some(latest) = .. { if issuance_date > latest .. }
TooLate(opts, issuance_date) ==
  IsSome(opts.latest_issuance_date)
    /\ issuance_date > Unwrap(opts.latest_issuance_date)

\* Mutant: iat is compared with the current time whatever the options are.
InTheFuture_Always(opts, issuance_date, t) == issuance_date > t

\* else if issuance_date > Timestamp::now_utc()
InTheFuture(opts, issuance_date, t) ==
  ~IsSome(opts.latest_issuance_date) /\ issuance_date > t

\* Mutant: the audience is compared before the nonce.
KbClaimsChecks_AudFirst(tok, kb_jwt, opts, h, t) ==
  IF HasherDiffers(tok, h)
  THEN [KbErr("InvalidHasher", "-", "-", 311) EXCEPT !.found = Some(h)]
  ELSE
  LET digest == SdHashDigest(tok, h)
      sd_hash == kb_jwt.claims.sd_hash
      issuance_date == FromUnix(kb_jwt.claims.iat)
  IN IF SdHashDiffers(sd_hash, digest)
     THEN KbUnexpected("InvalidDigest", digest, sd_hash, 323)
     ELSE IF AudDiffers(opts, kb_jwt)
     THEN KbUnexpected("AudienceMismatch", Unwrap(opts.aud),
                       kb_jwt.claims.aud, 340)
     ELSE IF NonceDiffers(opts, kb_jwt)
     THEN KbUnexpected("InvalidNonce", Unwrap(opts.nonce),
                       kb_jwt.claims.nonce, 331)
     ELSE IF ~IsSome(issuance_date)
     THEN KbErr("IssuanceDate", "-", "deserialization of iat failed", 348)
     ELSE IF TooEarly(opts, Unwrap(issuance_date))
     THEN KbErr("IssuanceDate", "-",
                "value is earlier than earliest_issuance_date", 352)
     ELSE IF TooLate(opts, Unwrap(issuance_date))
     THEN KbErr("IssuanceDate", "-",
                "value is later than latest_issuance_date", 360)
     ELSE IF InTheFuture(opts, Unwrap(issuance_date), t)
     THEN KbErr("IssuanceDate", "-", "value is in the future", 365)
     ELSE KbOk(368)

\* The checks after the holder's signature: lines 309-368.  The messages of
\* IssuanceDate are the source's without their backquotes.
KbClaimsChecks(tok, kb_jwt, opts, h, t) ==
  IF HasherDiffers(tok, h)
  THEN [KbErr("InvalidHasher", "-", "-", 311) EXCEPT !.found = Some(h)]
  ELSE
  LET digest == SdHashDigest(tok, h)
      sd_hash == kb_jwt.claims.sd_hash
      issuance_date == FromUnix(kb_jwt.claims.iat)
  IN IF SdHashDiffers(sd_hash, digest)
     THEN KbUnexpected("InvalidDigest", digest, sd_hash, 323)
     ELSE IF NonceDiffers(opts, kb_jwt)
     THEN KbUnexpected("InvalidNonce", Unwrap(opts.nonce),
                       kb_jwt.claims.nonce, 331)
     ELSE IF AudDiffers(opts, kb_jwt)
     THEN KbUnexpected("AudienceMismatch", Unwrap(opts.aud),
                       kb_jwt.claims.aud, 340)
     ELSE IF ~IsSome(issuance_date)
     THEN KbErr("IssuanceDate", "-", "deserialization of iat failed", 348)
     ELSE IF TooEarly(opts, Unwrap(issuance_date))
     THEN KbErr("IssuanceDate", "-",
                "value is earlier than earliest_issuance_date", 352)
     ELSE IF TooLate(opts, Unwrap(issuance_date))
     THEN KbErr("IssuanceDate", "-",
                "value is later than latest_issuance_date", 360)
     ELSE IF InTheFuture(opts, Unwrap(issuance_date), t)
     THEN KbErr("IssuanceDate", "-", "value is in the future", 365)
     ELSE KbOk(368)

\* Lines 267-368: the holder's key, the KB-JWT's signature, its claims.
KbRequiredChecks(tok, holder_document, opts, h, t) ==
  LET required_kb == Unwrap(RequiredKeyBind(tok))
      kb_jwt == Unwrap(KeyBindingJwtOf(tok))
      holder_pk == HolderPk(required_kb, holder_document)
  IN IF holder_pk.res.tag # "Ok" THEN holder_pk.res
     ELSE IF ~KbDecodes(kb_jwt)
     THEN KbErr("JwsDecodingError", "-", "-", 301)
     ELSE IF ~KbSignatureVerifies(kb_jwt, Unwrap(holder_pk.key))
     THEN KbErr("Signature", "Holder", "-", 303)
     ELSE KbClaimsChecks(tok, kb_jwt, opts, h, t)

\* Mutant: the two early returns in the other order.
ValidateKeyBindingJwt_MissingFirst(tok, holder_document, opts, h, t) ==
  IF KbAbsent(tok) THEN KbErr("MissingKeyBindingJwt", "-", "-", 264)
  ELSE IF KbNotRequired(tok) THEN KbOk(260)
  ELSE KbRequiredChecks(tok, holder_document, opts, h, t)

ValidateKeyBindingJwt(tok, holder_document, opts, h, t) ==
  IF KbNotRequired(tok) THEN KbOk(260)
  ELSE IF KbAbsent(tok) THEN KbErr("MissingKeyBindingJwt", "-", "-", 264)
  ELSE KbRequiredChecks(tok, holder_document, opts, h, t)

---------------------------------------------------------------------------
(* SdJwtCredentialValidatorError, with the line of validator.rs that      *)
(* returned it; `value` is the credential of an Ok.                        *)

CredOk(credential, line) ==
  [tag |-> "Ok", ctx |-> "-", line |-> line, value |-> Some(credential)]

CredErr(tag, ctx, line) ==
  [tag |-> tag, ctx |-> ctx, line |-> line, value |-> None]

---------------------------------------------------------------------------
(* SdJwtCredentialValidator::verify_signature_impl *)

\* JwtCredentialValidator::decode: the JWS of the compact text.
DecodeJws(jwt_str) == Unwrap(jwt_str[1].body)

\* JwtCredentialValidator::parse_jwk: the method the header's kid names in
\* the trusted issuers' documents, and its public key.
ParseJwk(signature, trusted_issuers) ==
  LET parsed == DIDUrlParse(signature.kid)
  IN IF ~IsSome(parsed)
     THEN [res |-> CredErr("MethodDataLookupError", "Issuer", 233),
           key |-> None, method_id |-> None]
     ELSE
     LET method_id == Unwrap(parsed)
         docs == {i \in 1 .. Len(trusted_issuers) :
                    trusted_issuers[i].id = method_id.did}
     IN IF docs = {}
        THEN [res |-> CredErr("DocumentMismatch", "Issuer", 233),
              key |-> None, method_id |-> None]
        ELSE
        LET doc == trusted_issuers[CHOOSE i \in docs : \A j \in docs : i <= j]
            method == ResolveMethod(doc, method_id)
        IN IF IsSome(method) /\ IsSome(Unwrap(method).jwk)
           THEN [res |-> CredErr("Ok", "-", 233),
                 key |-> Unwrap(method).jwk, method_id |-> parsed]
           ELSE [res |-> CredErr("MethodDataLookupError", "Issuer", 233),
                 key |-> None, method_id |-> None]

\* verify_signature_impl: the id of the signing method, or the error.
VerifySignatureImpl(sd_jwt_str, trusted_issuers) ==
  LET jwt_str == SplitOnceTilde(sd_jwt_str)
      signature == DecodeJws(jwt_str)
      pk == ParseJwk(signature, trusted_issuers)
  IN IF pk.res.tag # "Ok" THEN [res |-> pk.res, method_id |-> None]
     ELSE IF ~VerifySignature(signature.signedBy, Unwrap(pk.key))
     THEN [res |-> CredErr("Signature", "Issuer", 235), method_id |-> None]
     ELSE [res |-> CredErr("Ok", "-", 236), method_id |-> pk.method_id]

\* Mutant: the issuer claim is compared with the signer as well.
VerifySignatureOf_ChecksIssuer(tok, trusted_issuers) ==
  LET sd_jwt_str == Presentation(tok)
      r == VerifySignatureImpl(sd_jwt_str, trusted_issuers)
  IN IF r.res.tag # "Ok" THEN [r.res EXCEPT !.line = 214]
     ELSE IF tok.jws.claims.iss # Unwrap(r.method_id).did
     THEN CredErr("IdentifierMismatch", "Issuer", 214)
     ELSE CredErr("Ok", "-", 216)

\* SdJwtCredentialValidator::verify_signature
VerifySignatureOf(tok, trusted_issuers) ==
  LET sd_jwt_str == Presentation(tok)
      r == VerifySignatureImpl(sd_jwt_str, trusted_issuers)
  IN IF r.res.tag # "Ok" THEN [r.res EXCEPT !.line = 214]
     ELSE CredErr("Ok", "-", 216)

---------------------------------------------------------------------------
(* Reconstruction and shaping of the credential *)

\* SdJwt::into_disclosed_object: the claims with every disclosure of the
\* token put back; it fails when the hasher is not the token's _sd_alg and
\* when a disclosure's digest is not in the claims.
IntoDisclosedObject(tok, h) ==
  LET claims == tok.jws.claims
      alg == IF IsSome(claims.sd_alg) THEN Unwrap(claims.sd_alg) ELSE SHA_ALG_NAME
      unused == {i \in 1 .. Len(tok.disclosures) :
                   EncodedDigest(h, tok.disclosures[i]) \notin claims.sd}
  IN IF alg # h THEN [tag |-> "InvalidHasher", object |-> None]
     ELSE IF unused # {} THEN [tag |-> "UnusedDisclosure", object |-> None]
     ELSE [tag |-> "Ok",
           object |-> Some([claims |-> claims,
                            disclosed |-> {tok.disclosures[i] :
                                             i \in 1 .. Len(tok.disclosures)}])]

\* serde_json::from_value::<CredentialJwtClaims> / CredentialV2::from_json_value
ClaimsDeserialize(object, version) ==
  IF version = 1 THEN object.claims.shape \in {"v1", "v1-inconsistent"}
  ELSE object.claims.shape = "v2"

\* CredentialJwtClaims::try_into_credential
TryIntoCredentialOk(object) == object.claims.shape # "v1-inconsistent"

\* The credential the disclosed claims describe.
CredentialOf(object) ==
  [issuer |-> object.claims.iss,
   issuance_date |-> object.claims.nbf,
   expiration_date |-> object.claims.exp,
   structure |-> object.claims.structure,
   subject |-> object.disclosed]

\* JwtCredentialValidator::validate_decoded_credential with
\* FailFast::FirstError and default options: the first error, or "Ok".
ValidateDecodedCredential(credential, t) ==
  IF IsSome(credential.expiration_date) /\ Unwrap(credential.expiration_date) < t
  THEN "ExpirationDate"
  ELSE IF credential.issuance_date > t THEN "IssuanceDate"
  ELSE IF credential.structure # "ok" THEN credential.structure
  ELSE "Ok"

\* JwtCredentialValidatorUtils::extract_issuer::<CoreDID, _>
ExtractIssuer(credential) ==
  IF credential.issuer \in DIDs THEN Some(credential.issuer) ELSE None

---------------------------------------------------------------------------
(* SdJwtCredentialValidator::validate_credential, validate_credential_v2 *)

\* The lines of the return statements of the two functions.
CredLines(version) ==
  IF version = 1
  THEN [sig |-> 97, object |-> 101, deserialize |-> 103, into |-> 106,
        decoded |-> 113, extract |-> 115, mismatch |-> 117, ok |-> 125]
  ELSE [sig |-> 167, object |-> 171, deserialize |-> 173, into |-> 173,
        decoded |-> 180, extract |-> 182, mismatch |-> 184, ok |-> 192]

\* Mutant: the comparison is inverted.
IssuerDidDiffers_Inverted(issuer_id, vm_id) == issuer_id = vm_id.did

\* if &issuer_id != vm_id.did()
IssuerDidDiffers(issuer_id, vm_id) == issuer_id # vm_id.did

\* Mutant: the issuer is compared before the credential is validated.
CredentialChecks_BindingFirst(credential, vm_id, t, ln) ==
  LET decoded == ValidateDecodedCredential(credential, t)
      issuer_id == ExtractIssuer(credential)
  IN IF ~IsSome(issuer_id) THEN CredErr("SignerUrl", "Issuer", ln.extract)
     ELSE IF IssuerDidDiffers(Unwrap(issuer_id), vm_id)
     THEN CredErr("IdentifierMismatch", "Issuer", ln.mismatch)
     ELSE IF decoded # "Ok" THEN CredErr(decoded, "-", ln.decoded)
     ELSE CredOk(credential, ln.ok)

\* Mutant: a differing issuer DID is reported before the credential's dates
\* and structure are validated.
CredentialChecks_MismatchWins(credential, vm_id, t, ln) ==
  LET decoded == ValidateDecodedCredential(credential, t)
      issuer_id == ExtractIssuer(credential)
  IN IF IsSome(issuer_id) /\ IssuerDidDiffers(Unwrap(issuer_id), vm_id)
     THEN CredErr("IdentifierMismatch", "Issuer", ln.mismatch)
     ELSE IF decoded # "Ok" THEN CredErr(decoded, "-", ln.decoded)
     ELSE IF ~IsSome(issuer_id) THEN CredErr("SignerUrl", "Issuer", ln.extract)
     ELSE CredOk(credential, ln.ok)

\* Lines 107-125 (174-192): the checks on the shaped credential.
CredentialChecks(credential, vm_id, t, ln) ==
  LET decoded == ValidateDecodedCredential(credential, t)
      issuer_id == ExtractIssuer(credential)
  IN IF decoded # "Ok" THEN CredErr(decoded, "-", ln.decoded)
     ELSE IF ~IsSome(issuer_id) THEN CredErr("SignerUrl", "Issuer", ln.extract)
     ELSE IF IssuerDidDiffers(Unwrap(issuer_id), vm_id)
     THEN CredErr("IdentifierMismatch", "Issuer", ln.mismatch)
     ELSE CredOk(credential, ln.ok)

\* Mutant: a KB-JWT that does not decode fails the credential's validation.
ValidateCredentialAt_KbDecoded(tok, trusted_issuers, h, t, version) ==
  LET ln == CredLines(version)
      sig == VerifySignatureImpl(Presentation(tok), trusted_issuers)
      disclosed_claims == IntoDisclosedObject(tok, h)
  IN IF sig.res.tag # "Ok" THEN [sig.res EXCEPT !.line = ln.sig]
     ELSE IF IsSome(tok.kb) /\ ~KbDecodes(Unwrap(tok.kb))
     THEN CredErr("JwsDecodingError", "-", ln.sig)
     ELSE IF disclosed_claims.tag # "Ok"
     THEN CredErr(disclosed_claims.tag, "-", ln.object)
     ELSE IF ~ClaimsDeserialize(Unwrap(disclosed_claims.object), version)
     THEN CredErr("CredentialStructure", "-", ln.deserialize)
     ELSE IF version = 1 /\ ~TryIntoCredentialOk(Unwrap(disclosed_claims.object))
     THEN CredErr("CredentialStructure", "-", ln.into)
     ELSE CredentialChecks(CredentialOf(Unwrap(disclosed_claims.object)),
                           Unwrap(sig.method_id), t, ln)

\* Lines 96-125 (166-192) of validate_credential (validate_credential_v2).
ValidateCredentialAt(tok, trusted_issuers, h, t, version) ==
  LET ln == CredLines(version)
      sig == VerifySignatureImpl(Presentation(tok), trusted_issuers)
      disclosed_claims == IntoDisclosedObject(tok, h)
  IN IF sig.res.tag # "Ok" THEN [sig.res EXCEPT !.line = ln.sig]
     ELSE IF disclosed_claims.tag # "Ok"
     THEN CredErr(disclosed_claims.tag, "-", ln.object)
     ELSE IF ~ClaimsDeserialize(Unwrap(disclosed_claims.object), version)
     THEN CredErr("CredentialStructure", "-", ln.deserialize)
     ELSE IF version = 1 /\ ~TryIntoCredentialOk(Unwrap(disclosed_claims.object))
     THEN CredErr("CredentialStructure", "-", ln.into)
     ELSE CredentialChecks(CredentialOf(Unwrap(disclosed_claims.object)),
                           Unwrap(sig.method_id), t, ln)

\* validate_credential
ValidateCredential(tok, trusted_issuers, h, t) ==
  ValidateCredentialAt(tok, trusted_issuers, h, t, 1)

\* validate_credential_v2
ValidateCredentialV2(tok, trusted_issuers, h, t) ==
  ValidateCredentialAt(tok, trusted_issuers, h, t, 2)

---------------------------------------------------------------------------
(* Building tokens: SdJwtBuilder, KeyBindingJwtBuilder (storage/tests/kb_jwt.rs) *)

\* The text of a token up to and including the `~` that ends its disclosures.
PresentedPrefix(tok) ==
  <<Seg(tok.jws), Tilde>> \o JoinDisclosures(tok.disclosures)

\* The header typ KeyBindingJwtBuilder gives a KB-JWT.
KB_JWT_HEADER_TYP == "kb+jwt"

\* KeyBindingJwtBuilder::finish: a KB-JWT over `tok`, signed with `key`.
KbBuilderFinish(tok, aud, nonce, iat, key, h) ==
  [wellFormed |-> TRUE,
   typ |-> KB_JWT_HEADER_TYP,
   signedBy |-> key,
   claims |-> [sd_hash |-> EncodedDigest(h, PresentedPrefix(tok)),
               nonce |-> nonce, aud |-> aud, iat |-> iat]]

\* The claims SdJwtBuilder signs in setup_test: a v1 credential of the issuer
\* with two concealable claims, bound to the holder's key by kid.
IssuedClaims ==
  [iss |-> "did:issuer",
   nbf |-> 1,
   exp |-> None,
   shape |-> "v1",
   structure |-> "ok",
   sd_alg |-> None,
   cnf |-> Some(CnfKid(KidStr("did:holder", "key-1"))),
   sd |-> {EncodedDigest(SHA_ALG_NAME, "D1"), EncodedDigest(SHA_ALG_NAME, "D2")}]

IssuedSdJwt ==
  [jws |-> [kid |-> KidStr("did:issuer", "key-1"),
            signedBy |-> "issuer-key",
            claims |-> IssuedClaims],
   disclosures |-> <<"D1", "D2">>,
   kb |-> None]

\* The inputs of the KB-JWT builder in setup_test, at time t.
KbInputs(t) ==
  [aud |-> VERIFIER_ID, nonce |-> NONCE, iat |-> t, key |-> "holder-key",
   h |-> SHA_ALG_NAME]

\* Builder inputs that differ from setup_test's in at most one of them; an
\* iat of MaxTime + 1 is outside the range of Timestamp.
KbInputChoices(t) ==
  {KbInputs(t)}
    \cup {[KbInputs(t) EXCEPT !.aud = a] : a \in Auds}
    \cup {[KbInputs(t) EXCEPT !.nonce = n] : n \in Nonces}
    \cup {[KbInputs(t) EXCEPT !.iat = i] : i \in 0 .. MaxTime + 1}
    \cup {[KbInputs(t) EXCEPT !.key = k] : k \in Keys}
    \cup {[KbInputs(t) EXCEPT !.h = x] : x \in Hashers}

\* Mutant: a KB-JWT already attached is kept.
AttachKb_KeepFirst(tok, kb_jwt) ==
  IF IsSome(tok.kb) THEN tok ELSE [tok EXCEPT !.kb = Some(kb_jwt)]

\* sd_jwt.attach_key_binding_jwt(kb_jwt)
AttachKb(tok, kb_jwt) == [tok EXCEPT !.kb = Some(kb_jwt)]

\* KeyBindingJwtValidationOptions::new()
DefaultOptions ==
  [nonce |-> None, aud |-> None,
   earliest_issuance_date |-> None, latest_issuance_date |-> None]

NoCall == [op |-> "none"]

Call(op, res) == [op |-> op, res |-> res]

---------------------------------------------------------------------------
(* Claims objects.  An object is the set of its nodes, each the path from  *)
(* the root (a JSON pointer, as the sequence of its names) and the value:  *)
(* OBJECT for a nested object, the text of the JSON value for a leaf.      *)
(* Arrays are leaves: array-element disclosures are left out.              *)

OBJECT == "{..}"

Node(path, value) == [path |-> path, value |-> value]

IsPrefix(a, b) == Len(a) <= Len(b) /\ SubSeq(b, 1, Len(a)) = a

IsStrictPrefix(a, b) == IsPrefix(a, b) /\ a # b

\* The path q, which lies under base, as seen from base.
Rel(base, q) == SubSeq(q, Len(base) + 1, Len(q))

Parent(p) == SubSeq(p, 1, Len(p) - 1)

\* The object of test_sd_jwt_presentation_builder, with the order in which
\* its paths are made concealable (a path before its ancestors).
TestObject ==
  [nodes |-> { Node(<<"name">>, "John Doe"),
               Node(<<"address">>, OBJECT),
               Node(<<"address", "street_address">>, "A random street"),
               Node(<<"address", "number">>, "3a"),
               Node(<<"degree">>, "[]") },
   order |-> << <<"address", "street_address">>, <<"address", "number">>,
                <<"address">>, <<"name">>, <<"degree">> >>]

\* An object nested three levels deep.
DeepObject ==
  [nodes |-> { Node(<<"a">>, OBJECT),
               Node(<<"a", "b">>, OBJECT),
               Node(<<"a", "b", "c">>, "v"),
               Node(<<"a", "d">>, "w") },
   order |-> << <<"a", "b", "c">>, <<"a", "b">>, <<"a", "d">>, <<"a">> >>]

Objects == {TestObject, DeepObject}

PathsOf(O) == {n.path : n \in O.nodes}

ValueAt(O, p) == (CHOOSE n \in O.nodes : n.path = p).value

\* The elements of a sequence that are in keep, in order.
RECURSIVE Filter(_, _)
Filter(s, keep) ==
  IF s = << >> THEN << >>
  ELSE (IF Head(s) \in keep THEN <<Head(s)>> ELSE << >>) \o Filter(Tail(s), keep)

Range(s) == {s[i] : i \in 1 .. Len(s)}

---------------------------------------------------------------------------
(* Issuance: SdJwtBuilder / SdJwtVcBuilder with make_concealable            *)

EmptyView == [plain |-> {}, sd |-> {}]

\* The concealable paths below base that no other concealable path below
\* base hides: their digests stand in the claims seen from base.
DirectlyConcealed(P, base) ==
  {r \in P : /\ IsStrictPrefix(base, r)
             /\ ~\E r2 \in P : IsStrictPrefix(base, r2) /\ IsStrictPrefix(r2, r)}

\* The nodes below base that stay in the clear.
PlainBelow(O, P, base) ==
  {Node(Rel(base, n.path), n.value) :
     n \in {m \in O.nodes :
              /\ IsStrictPrefix(base, m.path)
              /\ ~\E r \in P : IsStrictPrefix(base, r) /\ IsPrefix(r, m.path)}}

RECURSIVE ViewOf(_, _, _, _), DisclosureOf(_, _, _, _)

\* What the token shows of the object below base: the plain nodes and, per
\* parent object, the `_sd` digests of the disclosures made directly there.
ViewOf(O, P, alg, base) ==
  [plain |-> PlainBelow(O, P, base),
   sd |-> {[parent |-> Rel(base, Parent(r)),
            digest |-> EncodedDigest(alg, DisclosureOf(O, P, alg, r))] :
             r \in DirectlyConcealed(P, base)}]

\* The disclosure of the node at r: a fresh salt (one per disclosure), the
\* claim name and the value, in which deeper concealable nodes are already
\* replaced by their digests.
DisclosureOf(O, P, alg, r) ==
  [salt |-> r,
   claim_name |-> r[Len(r)],
   value |-> IF ValueAt(O, r) = OBJECT
             THEN [leaf |-> FALSE, v |-> OBJECT, view |-> ViewOf(O, P, alg, r)]
             ELSE [leaf |-> TRUE, v |-> ValueAt(O, r), view |-> EmptyView]]

\* SdJwtBuilder::finish: the claims with the concealable paths replaced by
\* digests, and one disclosure per path, in the order the paths were made
\* concealable.
\* The issuer's JWS is the signature over the claims as issued.
Issue(O, P, alg) ==
  LET order == Filter(O.order, P)
      claims == ViewOf(O, P, alg, << >>)
  IN [jws |-> [signer |-> "issuer", payload |-> claims],
      claims |-> claims,
      disclosures |-> [i \in 1 .. Len(order) |-> DisclosureOf(O, P, alg, order[i])]]

---------------------------------------------------------------------------
(* Reconstruction: SdJwt::into_disclosed_object on claims trees            *)

\* The `_sd` entries of a view with the disclosures of D they commit to.
Matches(view, D, h) ==
  {m \in view.sd \X D : EncodedDigest(h, m[2]) = m[1].digest}

\* Mutant: the values put in for digests are not expanded in turn.
Expand_Shallow(view, base, D, h) ==
  {Node(base \o n.path, n.value) : n \in view.plain} \cup
  { Node(base \o m[1].parent \o <<m[2].claim_name>>, m[2].value.v) :
      m \in Matches(view, D, h) }

RECURSIVE Expand(_, _, _, _)
\* The nodes a view stands for under the disclosures D, as seen from the root
\* when the view sits at base: digests that match a disclosure are replaced
\* by its value (and the value is expanded in turn), the others are dropped.
Expand(view, base, D, h) ==
  {Node(base \o n.path, n.value) : n \in view.plain} \cup
  UNION { LET p == base \o m[1].parent \o <<m[2].claim_name>>
          IN {Node(p, m[2].value.v)} \cup
             (IF m[2].value.leaf THEN {}
              ELSE Expand(m[2].value.view, p, D, h)) :
          m \in Matches(view, D, h) }

RECURSIVE Located(_, _, _, _)
\* The disclosable paths of a view under the disclosures D, each with the
\* disclosure that reveals the node there.
Located(view, base, D, h) ==
  UNION { LET p == base \o m[1].parent \o <<m[2].claim_name>>
          IN {[path |-> p, disclosure |-> m[2]]} \cup
             (IF m[2].value.leaf THEN {}
              ELSE Located(m[2].value.view, p, D, h)) :
          m \in Matches(view, D, h) }

\* into_disclosed_object: the disclosed object, or UnusedDisclosure when a
\* disclosure's digest is found nowhere in it.
DisclosedObject(tok, h) ==
  LET D == Range(tok.disclosures)
      used == {l.disclosure : l \in Located(tok.claims, << >>, D, h)}
  IN IF used # D
     THEN [tag |-> "UnusedDisclosure", object |-> None]
     ELSE [tag |-> "Ok", object |-> Some(Expand(tok.claims, << >>, D, h))]

---------------------------------------------------------------------------
(* sd_jwt::SdJwtPresentationBuilder                                        *)

BuilderOk(b) == [tag |-> "Ok", builder |-> Some(b)]

BuilderErr(tag) == [tag |-> tag, builder |-> None]

\* SdJwt::into_presentation: every disclosure retained; the disclosable
\* paths are those of the fully disclosed object.
IntoPresentation(tok, h) ==
  BuilderOk([sd_jwt |-> tok,
             paths |-> Located(tok.claims, << >>, Range(tok.disclosures), h),
             retained |-> Range(tok.disclosures)])

\* Mutant: only the disclosure of the node itself is removed.
BuilderConceal_NodeOnly(b, path) ==
  IF path \notin {l.path : l \in b.paths} THEN BuilderErr("PathNotDisclosable")
  ELSE BuilderOk([b EXCEPT !.retained =
                    @ \ {l.disclosure : l \in {x \in b.paths : x.path = path}}])

\* Mutant: the path is resolved against what is still disclosed.
BuilderConceal_RetainedView(b, path) ==
  IF path \notin {l.path : l \in {x \in b.paths : x.disclosure \in b.retained}}
  THEN BuilderErr("PathNotDisclosable")
  ELSE BuilderOk([b EXCEPT !.retained =
                    @ \ {l.disclosure :
                           l \in {x \in b.paths : IsPrefix(path, x.path)}}])

\* SdJwtPresentationBuilder::conceal: the disclosure of the node at path and
\* of every disclosable node below it are removed.
BuilderConceal(b, path) ==
  IF path \notin {l.path : l \in b.paths} THEN BuilderErr("PathNotDisclosable")
  ELSE BuilderOk([b EXCEPT !.retained =
                    @ \ {l.disclosure :
                           l \in {x \in b.paths : IsPrefix(path, x.path)}}])

\* SdJwtPresentationBuilder::conceal_all
BuilderConcealAll(b) == [b EXCEPT !.retained = {}]

\* Mutant: only the disclosure of the node itself is retained again.
BuilderDisclose_NodeOnly(b, path) ==
  IF path \notin {l.path : l \in b.paths} THEN BuilderErr("PathNotDisclosable")
  ELSE BuilderOk([b EXCEPT !.retained =
                    @ \cup {l.disclosure :
                              l \in {x \in b.paths : x.path = path}}])

\* SdJwtPresentationBuilder::disclose: the disclosure of the node at path and
\* of every disclosable node above it are retained again.
BuilderDisclose(b, path) ==
  IF path \notin {l.path : l \in b.paths} THEN BuilderErr("PathNotDisclosable")
  ELSE BuilderOk([b EXCEPT !.retained =
                    @ \cup {l.disclosure :
                              l \in {x \in b.paths : IsPrefix(x.path, path)}}])

\* Mutant: the retained disclosures are emitted last-first.
BuilderFinish_Reversed(b) ==
  LET kept == Filter(b.sd_jwt.disclosures, b.retained)
  IN [sd_jwt |-> [b.sd_jwt EXCEPT !.disclosures =
                    [i \in 1 .. Len(kept) |-> kept[Len(kept) + 1 - i]]],
      disclosures |-> Filter(b.sd_jwt.disclosures,
                             Range(b.sd_jwt.disclosures) \ b.retained)]

\* SdJwtPresentationBuilder::finish: the token with the retained disclosures,
\* in the order of the source token, and the removed ones.
BuilderFinish(b) ==
  [sd_jwt |-> [b.sd_jwt EXCEPT !.disclosures = Filter(@, b.retained)],
   disclosures |-> Filter(b.sd_jwt.disclosures,
                          Range(b.sd_jwt.disclosures) \ b.retained)]

---------------------------------------------------------------------------
(* SdJwtVc and SdJwtVcPresentationBuilder (sd_jwt_vc/presentation.rs)       *)

\* The claims an SdJwtVc leaves in its wrapped SdJwt while it holds the
\* token's claims in parsed_claims.
TakenClaims == EmptyView

\* An SdJwtVc: the SdJwt and the parsed claims, which hold the reserved
\* claims apart and the token's other claims in sd_jwt_claims.
\* The reserved claims the test credential is built with besides vct: iss and
\* iat are set, the others are left out.
TestReserved ==
  [iss |-> Some("https://example.com"), nbf |-> None, exp |-> None,
   status |-> None, iat |-> Some(MaxTime), sub |-> None]

SdJwtVc(sd_jwt_tok, vct) ==
  [sd_jwt |-> [sd_jwt_tok EXCEPT !.claims = TakenClaims],
   parsed_claims |-> [iss |-> TestReserved.iss, nbf |-> TestReserved.nbf,
                      exp |-> TestReserved.exp, vct |-> vct,
                      status |-> TestReserved.status, iat |-> TestReserved.iat,
                      sub |-> TestReserved.sub,
                      sd_jwt_claims |-> sd_jwt_tok.claims]]

\* Mutant: the parsed claims are not put back into the token.
SdJwtVcPresentationBuilderNew_NoSwap(token, h) ==
  LET builder == IntoPresentation(token.sd_jwt, h)
  IN IF builder.tag # "Ok" THEN BuilderErr(builder.tag)
     ELSE BuilderOk([vc_claims |-> token.parsed_claims,
                     builder |-> Unwrap(builder.builder)])

\* SdJwtVcPresentationBuilder::new
SdJwtVcPresentationBuilderNew(token, h) ==
  LET sd_jwt_tok == [token.sd_jwt EXCEPT
                       !.claims = token.parsed_claims.sd_jwt_claims]
      vc_claims == [token.parsed_claims EXCEPT
                       !.sd_jwt_claims = token.sd_jwt.claims]
      builder == IntoPresentation(sd_jwt_tok, h)
  IN IF builder.tag # "Ok" THEN BuilderErr(builder.tag)
     ELSE BuilderOk([vc_claims |-> vc_claims,
                     builder |-> Unwrap(builder.builder)])

\* SdJwtVcPresentationBuilder::conceal
Conceal(self, path) ==
  LET r == BuilderConceal(self.builder, path)
  IN IF r.tag # "Ok" THEN BuilderErr(r.tag)
     ELSE BuilderOk([self EXCEPT !.builder = Unwrap(r.builder)])

\* SdJwtVcPresentationBuilder::conceal_all
ConcealAll(self) ==
  BuilderOk([self EXCEPT !.builder = BuilderConcealAll(self.builder)])

\* Mutant: disclose removes the disclosures, as conceal does.
Disclose_AsConceal(self, path) ==
  LET r == BuilderConceal(self.builder, path)
  IN IF r.tag # "Ok" THEN BuilderErr(r.tag)
     ELSE BuilderOk([self EXCEPT !.builder = Unwrap(r.builder)])

\* SdJwtVcPresentationBuilder::disclose
Disclose(self, path) ==
  LET r == BuilderDisclose(self.builder, path)
  IN IF r.tag # "Ok" THEN BuilderErr(r.tag)
     ELSE BuilderOk([self EXCEPT !.builder = Unwrap(r.builder)])

\* SdJwtVcPresentationBuilder::finish: the SdJwtVc, its claims moved back
\* into the parsed claims, and the removed disclosures.
Finish_NoSwapBack(self) ==
  LET r == BuilderFinish(self.builder)
  IN [token |-> [sd_jwt |-> r.sd_jwt, parsed_claims |-> self.vc_claims],
      disclosures |-> r.disclosures]

Finish(self) ==
  LET r == BuilderFinish(self.builder)
  IN [token |-> [sd_jwt |-> [r.sd_jwt EXCEPT
                               !.claims = self.vc_claims.sd_jwt_claims],
                 parsed_claims |-> [self.vc_claims EXCEPT
                                      !.sd_jwt_claims = r.sd_jwt.claims]],
      disclosures |-> r.disclosures]

\* SdJwtVc::into_disclosed_object: the object of the token's claims, which
\* the SdJwtVc holds in its parsed claims.
VcDisclosedObject(token, h) ==
  DisclosedObject([claims |-> token.parsed_claims.sd_jwt_claims,
                   disclosures |-> token.sd_jwt.disclosures], h)

\* The vct of test_sd_jwt_presentation_builder.
TestVct == "https://example.com/education_credential"

\* The paths test_sd_jwt_presentation_builder makes concealable.
TestConcealable == { <<"address", "street_address">>, <<"address">> }

---------------------------------------------------------------------------
(* SdJwtVcClaims::try_from_sd_jwt_claims (sd_jwt_vc/claims.rs)              *)
(*                                                                         *)
(* The claims are a map from claim names to JSON values (None: no such     *)
(* claim); a result carries the line of claims.rs that produced it.        *)

\* serde_json::Value: a string, a number or an object.
JStr(s) == [t |-> "string", s |-> s, n |-> 0]

JNum(n) == [t |-> "number", s |-> "", n |-> n]

JObj(s) == [t |-> "object", s |-> s, n |-> 0]

\* Value::as_str
AsStr(value) == IF value.t = "string" THEN Some(value.s) ELSE None

\* Value::as_number followed by Number::as_i64
AsI64(value) == IF value.t = "number" THEN Some(value.n) ELSE None

\* The strings Url::parse accepts.
Urls == {"https://example.com"}

\* Url::parse(s).ok()
UrlParse(s) == IF s \in Urls THEN Some(s) ELSE None

\* StringOrUrl::parse(s).ok(): a string with a `:` has to be a URL.
StringOrUrlParse(s) == IF s = "not:a url" THEN None ELSE Some(s)

\* serde_json::from_value::<Status>(value).ok()
StatusFromValue(value) ==
  IF value.t = "object" /\ value.s = "status_list" THEN Some(value.s) ELSE None

\* The claims that SdJwtVcClaims holds in fields of their own.
ReservedClaims == {"iss", "nbf", "exp", "vct", "status", "iat", "sub"}

\* The claim names of the modelled tokens.
ClaimNames == ReservedClaims \cup {"name"}

VcErr(tag, name, line) == [tag |-> tag, name |-> name, line |-> line]

\* Error::InvalidClaimValue { name, expected, found }
InvalidClaimValue(name, expected, found, line) ==
  [tag |-> "InvalidClaimValue", name |-> name, expected |-> expected,
   found |-> found, line |-> line]

\* The outcome of one field's step: an error, or the field's value.
StepErr(e) == [err |-> Some(e), value |-> None]

StepOk(v) == [err |-> None, value |-> v]

\* The closure check_disclosed: Some(DisclosedClaim(claim_name)) when a
\* disclosure carries that claim name.
CheckDisclosed(disclosures, claim_name, line) ==
  IF \E i \in 1 .. Len(disclosures) :
       disclosures[i].claim_name = Some(claim_name)
  THEN Some(VcErr("DisclosedClaim", claim_name, line))
  ELSE None

\* iss: an URL when present.
IssOf(claims) ==
  IF claims["iss"] = None THEN StepOk(None)
  ELSE LET value == Unwrap(claims["iss"])
           url == IF IsSome(AsStr(value)) THEN UrlParse(Unwrap(AsStr(value)))
                  ELSE None
       IN IF IsSome(url) THEN StepOk(url)
          ELSE StepErr(InvalidClaimValue("iss", "URL", value, 83))

\* A timestamp claim whose absence is checked against the disclosures
\* (nbf, exp).
CheckedTimestampOf(claims, disclosures, name, invalid_line, disclosed_line) ==
  IF IsSome(claims[name])
  THEN LET value == Unwrap(claims[name])
           t == IF IsSome(AsI64(value)) THEN FromUnix(Unwrap(AsI64(value)))
                ELSE None
       IN IF IsSome(t) THEN StepOk(t)
          ELSE StepErr(InvalidClaimValue(name, "unix timestamp", value,
                                         invalid_line))
  ELSE LET err == CheckDisclosed(disclosures, name, disclosed_line)
       IN IF IsSome(err) THEN StepErr(Unwrap(err)) ELSE StepOk(None)

NbfOf(claims, disclosures) ==
  CheckedTimestampOf(claims, disclosures, "nbf", 96, 104)

ExpOf(claims, disclosures) ==
  CheckedTimestampOf(claims, disclosures, "exp", 115, 123)

\* Mutant: a missing vct is MissingClaim whatever the disclosures are.
VctOf_NoCheckDisclosed(claims, disclosures) ==
  IF claims["vct"] = None
  THEN StepErr(VcErr("MissingClaim", "vct", 130))
  ELSE LET value == Unwrap(claims["vct"])
       IN IF IsSome(AsStr(value)) THEN StepOk(Unwrap(AsStr(value)))
          ELSE StepErr(InvalidClaimValue("vct", "String", value, 136))

\* vct: required, a string.
VctOf(claims, disclosures) ==
  IF claims["vct"] = None
  THEN LET err == CheckDisclosed(disclosures, "vct", 131)
       IN IF IsSome(err) THEN StepErr(Unwrap(err))
          ELSE StepErr(VcErr("MissingClaim", "vct", 130))
  ELSE LET value == Unwrap(claims["vct"])
       IN IF IsSome(AsStr(value)) THEN StepOk(Unwrap(AsStr(value)))
          ELSE StepErr(InvalidClaimValue("vct", "String", value, 136))

\* status: a status object when present; its absence is checked against the
\* disclosures.
StatusOf(claims, disclosures) ==
  IF IsSome(claims["status"])
  THEN LET value == Unwrap(claims["status"])
           status == StatusFromValue(value)
       IN IF IsSome(status) THEN StepOk(status)
          ELSE StepErr(InvalidClaimValue("status", "credential's status object",
                                         value, 145))
  ELSE LET err == CheckDisclosed(disclosures, "status", 153)
       IN IF IsSome(err) THEN StepErr(Unwrap(err)) ELSE StepOk(None)

\* sub: a string or an URL when present.
SubOf(claims) ==
  IF claims["sub"] = None THEN StepOk(None)
  ELSE LET value == Unwrap(claims["sub"])
           sub == IF IsSome(AsStr(value))
                  THEN StringOrUrlParse(Unwrap(AsStr(value)))
                  ELSE None
       IN IF IsSome(sub) THEN StepOk(sub)
          ELSE StepErr(InvalidClaimValue("sub", "String or URL", value, 164))

\* iat: a timestamp when present.
IatOf(claims) ==
  IF claims["iat"] = None THEN StepOk(None)
  ELSE LET value == Unwrap(claims["iat"])
           t == IF IsSome(AsI64(value)) THEN FromUnix(Unwrap(AsI64(value)))
                ELSE None
       IN IF IsSome(t) THEN StepOk(t)
          ELSE StepErr(InvalidClaimValue("iat", "unix timestamp", value, 178))

\* SdJwtVcClaims::try_from_sd_jwt_claims: the fields are taken out of the
\* claims in the order iss, nbf, exp, vct, status, sub, iat; the first step
\* that fails returns its error; what is left of the claims stays in
\* sd_jwt_claims.
TryFromSdJwtClaims(claims, disclosures) ==
  LET iss == IssOf(claims)
      nbf == NbfOf(claims, disclosures)
      exp == ExpOf(claims, disclosures)
      vct == VctOf(claims, disclosures)
      status == StatusOf(claims, disclosures)
      sub == SubOf(claims)
      iat == IatOf(claims)
  IN IF IsSome(iss.err) THEN Unwrap(iss.err)
     ELSE IF IsSome(nbf.err) THEN Unwrap(nbf.err)
     ELSE IF IsSome(exp.err) THEN Unwrap(exp.err)
     ELSE IF IsSome(vct.err) THEN Unwrap(vct.err)
     ELSE IF IsSome(status.err) THEN Unwrap(status.err)
     ELSE IF IsSome(sub.err) THEN Unwrap(sub.err)
     ELSE IF IsSome(iat.err) THEN Unwrap(iat.err)
     ELSE [tag |-> "Ok", line |-> 186,
           value |-> [iss |-> iss.value, nbf |-> nbf.value, exp |-> exp.value,
                      vct |-> vct.value, status |-> status.value,
                      iat |-> iat.value, sub |-> sub.value,
                      sd_jwt_claims |->
                        [n \in ClaimNames |->
                           IF n \in ReservedClaims THEN None ELSE claims[n]]]]

\* The values a claim of the modelled tokens has: none, one its field
\* accepts, or one it refuses.
ClaimChoices(name) ==
  {None} \cup
  CASE name = "iss" -> {Some(JStr("https://example.com")), Some(JStr("John Doe"))}
    [] name \in {"nbf", "exp", "iat"} -> {Some(JNum(1)), Some(JNum(MaxTime + 1))}
    [] name = "vct" -> {Some(JStr("https://example.com/education_credential")),
                        Some(JNum(1))}
    [] name = "status" -> {Some(JObj("status_list")), Some(JStr("revoked"))}
    [] name = "sub" -> {Some(JStr("John Doe")), Some(JStr("not:a url")),
                        Some(JNum(1))}
    [] name = "name" -> {Some(JStr("John Doe"))}

\* The claim names a disclosure of the modelled tokens has; None is the
\* disclosure of an array element.
DisclosureNames == {None} \cup {Some(n) : n \in ClaimNames}

\* The claims and disclosures of test_sd_jwt_presentation_builder with
\* nothing concealed.
TestVcInput ==
  [claims |-> [n \in ClaimNames |->
                 CASE n = "iss" -> Some(JStr("https://example.com"))
                   [] n = "vct" -> Some(JStr("https://example.com/education_credential"))
                   [] n = "iat" -> Some(JNum(1))
                   [] n = "name" -> Some(JStr("John Doe"))
                   [] OTHER -> None],
   disclosures |-> << >>]

---------------------------------------------------------------------------
(* The binding layer (identity_wasm, sd_jwt_validator.rs): every call      *)
(* takes a read guard on each DID document it is handed, runs the core's   *)
(* validator and drops the guards when it returns.  The documents are      *)
(* shared with other code, which may hold read or write guards on them.    *)
(* The calls are synchronous: a call is one step.                          *)

\* The DID documents the caller holds.
Handles == {"issuer", "holder", "other"}

\* The document behind a handle.
DocOf(h) ==
  CASE h = "issuer" -> IssuerDoc
    [] h = "holder" -> HolderDoc
    [] h = "other" -> OtherDoc

\* A lock nobody holds.
Unlocked == [readers |-> 0, writer |-> FALSE]

\* ImportedDocumentLock::try_read: fails while a write guard is held.
TryRead(lk, h) ==
  IF lk[h].writer THEN [ok |-> FALSE, locks |-> lk]
  ELSE [ok |-> TRUE, locks |-> [lk EXCEPT ![h].readers = @ + 1]]

\* Dropping read guards, one per handle of the sequence.
RECURSIVE DropGuards(_, _)
DropGuards(lk, guards) ==
  IF guards = << >> THEN lk
  ELSE DropGuards([lk EXCEPT ![Head(guards)].readers = @ - 1], Tail(guards))

\* Mutant: the guards taken before the failing try_read stay held.
RECURSIVE TryReadEach_KeepPartial(_, _, _)
TryReadEach_KeepPartial(lk, handles, guards) ==
  IF handles = << >> THEN [ok |-> TRUE, locks |-> lk, guards |-> guards]
  ELSE LET r == TryRead(lk, Head(handles))
       IN IF r.ok
          THEN TryReadEach_KeepPartial(r.locks, Tail(handles),
                                       Append(guards, Head(handles)))
          ELSE [ok |-> FALSE, locks |-> lk, guards |-> guards]

\* try_read on each document in turn, collected into a Result: the first
\* failure ends it, and the guards collected so far are dropped with the
\* unfinished Vec.
RECURSIVE TryReadEach(_, _, _)
TryReadEach(lk, handles, guards) ==
  IF handles = << >> THEN [ok |-> TRUE, locks |-> lk, guards |-> guards]
  ELSE LET r == TryRead(lk, Head(handles))
       IN IF r.ok
          THEN TryReadEach(r.locks, Tail(handles), Append(guards, Head(handles)))
          ELSE [ok |-> FALSE, locks |-> DropGuards(lk, guards), guards |-> << >>]

\* JsError::new("failed to lock DidDocument for reading")
LockError == [tag |-> "JsError", msg |-> "failed to lock DidDocument for reading"]

\* The outcome of the core's validator, handed on by the binding.
CoreResult(res) == [tag |-> "Core", res |-> res]

\* The core's call behind each of the binding's methods, on the documents
\* the guards give access to.
CoreCall(op, handles) ==
  LET docs == [i \in 1 .. Len(handles) |-> DocOf(handles[i])]
  IN CASE op = "validate_credential" ->
            ValidateCredential(sd_jwt, docs, hasher, now)
       [] op = "validate_credential_v2" ->
            ValidateCredentialV2(sd_jwt, docs, hasher, now)
       [] op = "verify_signature" -> VerifySignatureOf(sd_jwt, docs)
       [] op = "validate_key_binding_jwt" ->
            ValidateKeyBindingJwt(sd_jwt, docs[1], options, hasher, now)

\* A method of WasmSdJwtCredentialValidator: the guards are taken, the core
\* is called when all of them were, and every guard the call holds is
\* dropped when it returns.  The record holds the call, the handles that
\* were write-locked when it was made, its result, and the guards it still
\* holds after it has returned.
BindingCall(lk, op, handles) ==
  LET taken == TryReadEach(lk, handles, << >>)
      blocked == {handles[i] : i \in {j \in 1 .. Len(handles) : lk[handles[j]].writer}}
  IN IF ~taken.ok
     THEN [locks |-> taken.locks,
           call |-> [op |-> op, handles |-> handles, blocked |-> blocked,
                     res |-> LockError, guards |-> taken.guards]]
     ELSE [locks |-> DropGuards(taken.locks, taken.guards),
           call |-> [op |-> op, handles |-> handles, blocked |-> blocked,
                     res |-> CoreResult(CoreCall(op, handles)),
                     guards |-> << >>]]

\* No binding call made yet.
NoBindingCall ==
  [op |-> "none", handles |-> << >>, blocked |-> {}, res |-> LockError,
   guards |-> << >>]

\* The guards a returned call still holds on the document of h.
Leaked(h) ==
  Cardinality({i \in 1 .. Len(binding_last.guards) : binding_last.guards[i] = h})

GuardInit ==
  /\ locks = [h \in Handles |-> Unlocked]
  /\ binding_last = NoBindingCall

---------------------------------------------------------------------------
(* The state machine *)

\* setup_test followed by SdJwtCredentialValidator::new(verifier, Sha256Hasher).
ValidatorInit ==
  /\ sd_jwt = AttachKb(IssuedSdJwt,
        LET i == KbInputs(1)
        IN KbBuilderFinish(IssuedSdJwt, i.aud, i.nonce, i.iat, i.key, i.h))
  /\ presented = sd_jwt
  /\ options = DefaultOptions
  /\ holder_doc = HolderDoc
  /\ issuer_docs = <<IssuerDoc>>
  /\ hasher = SHA_ALG_NAME
  /\ now = 1
  /\ edits = 0
  /\ last = NoCall

\* A token issued from O with the paths P concealable, and a fresh
\* presentation builder for it.
BuilderInit(O, P) ==
  /\ issued = [object |-> O, concealable |-> P,
               token |-> SdJwtVc(Issue(O, P, SHA_ALG_NAME), TestVct)]
  /\ ops = << >>
  /\ hist = <<SdJwtVcPresentationBuilderNew(issued.token, SHA_ALG_NAME).builder>>
  /\ finished = None
  /\ disclosed = None

\* The claims and disclosures handed to try_from_sd_jwt_claims.
VcInit(input) ==
  /\ vc_input = input
  /\ vc_parsed = None

Init ==
  /\ ValidatorInit
  /\ BuilderInit(TestObject, TestConcealable)
  /\ VcInit(TestVcInput)
  /\ GuardInit

\* An input changes: one more edit, and the last result is forgotten.
Edit ==
  /\ edits < MaxEdits
  /\ edits' = edits + 1
  /\ last' = NoCall
  /\ UNCHANGED <<builder_vars, vc_vars, guard_vars>>

\* The holder builds a KB-JWT for the token and attaches it.
AttachKeyBindingJwt ==
  /\ Edit
  /\ \E i \in KbInputChoices(now) :
       sd_jwt' = AttachKb(sd_jwt,
                   KbBuilderFinish(sd_jwt, i.aud, i.nonce, i.iat, i.key, i.h))
  /\ presented' = sd_jwt'
  /\ UNCHANGED <<options, holder_doc, issuer_docs, hasher, now>>

\* A token is parsed whose JWS header or claims differ in one place.
ParseOtherJws ==
  /\ Edit
  /\ \/ \E x \in {KidStr("did:issuer", "key-9"), KidStr("did:other", "key-1"),
                  BareKid} : sd_jwt' = [sd_jwt EXCEPT !.jws.kid = x]
     \/ \E x \in Keys : sd_jwt' = [sd_jwt EXCEPT !.jws.signedBy = x]
     \/ \E x \in DIDs \cup {"https://example.com"} :
          sd_jwt' = [sd_jwt EXCEPT !.jws.claims.iss = x]
     \/ \E x \in Time : sd_jwt' = [sd_jwt EXCEPT !.jws.claims.nbf = x]
     \/ \E x \in Time : sd_jwt' = [sd_jwt EXCEPT !.jws.claims.exp = Some(x)]
     \/ \E x \in {"v1", "v1-inconsistent", "v2", "malformed"} :
          sd_jwt' = [sd_jwt EXCEPT !.jws.claims.shape = x]
     \/ \E x \in {"ok", "MissingBaseContext"} :
          sd_jwt' = [sd_jwt EXCEPT !.jws.claims.structure = x]
     \/ \E x \in {None} \cup {Some(a) : a \in Hashers} :
          sd_jwt' = [sd_jwt EXCEPT !.jws.claims.sd_alg = x]
     \/ \E x \in Cnfs : sd_jwt' = [sd_jwt EXCEPT !.jws.claims.cnf = x]
  /\ sd_jwt' # sd_jwt
  /\ UNCHANGED <<presented, options, holder_doc, issuer_docs, hasher, now>>

\* A token is parsed whose disclosure list differs: one disclosure removed,
\* one added, or the first two exchanged.
ParseOtherDisclosures ==
  /\ Edit
  /\ LET ds == sd_jwt.disclosures
     IN \/ \E i \in 1 .. Len(ds) :
             sd_jwt' = [sd_jwt EXCEPT !.disclosures =
                          SubSeq(ds, 1, i - 1) \o SubSeq(ds, i + 1, Len(ds))]
        \/ \E d \in Disclosures :
             /\ \A i \in 1 .. Len(ds) : ds[i] # d
             /\ sd_jwt' = [sd_jwt EXCEPT !.disclosures = Append(ds, d)]
        \/ /\ Len(ds) >= 2
           /\ sd_jwt' = [sd_jwt EXCEPT !.disclosures =
                           <<ds[2], ds[1]>> \o SubSeq(ds, 3, Len(ds))]
  /\ UNCHANGED <<presented, options, holder_doc, issuer_docs, hasher, now>>

\* A token is parsed without its KB-JWT, with a KB-JWT that no longer
\* decodes as a JWS, or with a KB-JWT the holder signed under another
\* header typ.
ParseOtherKb ==
  /\ Edit
  /\ IsSome(sd_jwt.kb)
  /\ \/ sd_jwt' = [sd_jwt EXCEPT !.kb = None]
     \/ /\ Unwrap(sd_jwt.kb).wellFormed
        /\ sd_jwt' = [sd_jwt EXCEPT !.kb = Some([Unwrap(sd_jwt.kb) EXCEPT
                                                   !.wellFormed = FALSE])]
     \/ /\ Unwrap(sd_jwt.kb).typ = KB_JWT_HEADER_TYP
        /\ sd_jwt' = [sd_jwt EXCEPT !.kb = Some([Unwrap(sd_jwt.kb) EXCEPT
                                                   !.typ = "jwt"])]
  /\ UNCHANGED <<presented, options, holder_doc, issuer_docs, hasher, now>>

\* KeyBindingJwtValidationOptions::nonce
OptionsNonce ==
  /\ Edit
  /\ \E n \in Nonces : options' = [options EXCEPT !.nonce = Some(n)]
  /\ UNCHANGED <<sd_jwt, presented, holder_doc, issuer_docs, hasher, now>>

\* KeyBindingJwtValidationOptions::aud
OptionsAud ==
  /\ Edit
  /\ \E a \in Auds : options' = [options EXCEPT !.aud = Some(a)]
  /\ UNCHANGED <<sd_jwt, presented, holder_doc, issuer_docs, hasher, now>>

\* KeyBindingJwtValidationOptions::earliest_issuance_date
OptionsEarliestIssuanceDate ==
  /\ Edit
  /\ \E t \in Time :
       options' = [options EXCEPT !.earliest_issuance_date = Some(t)]
  /\ UNCHANGED <<sd_jwt, presented, holder_doc, issuer_docs, hasher, now>>

\* KeyBindingJwtValidationOptions::latest_issuance_date
OptionsLatestIssuanceDate ==
  /\ Edit
  /\ \E t \in Time :
       options' = [options EXCEPT !.latest_issuance_date = Some(t)]
  /\ UNCHANGED <<sd_jwt, presented, holder_doc, issuer_docs, hasher, now>>

\* SdJwtCredentialValidator::new with another hasher
NewValidator ==
  /\ Edit
  /\ \E h \in Hashers \ {hasher} : hasher' = h
  /\ UNCHANGED <<sd_jwt, presented, options, holder_doc, issuer_docs, now>>

\* The caller hands over another holder document.
OtherHolderDocument ==
  /\ Edit
  /\ \E d \in HolderDocs \ {holder_doc} : holder_doc' = d
  /\ UNCHANGED <<sd_jwt, presented, options, issuer_docs, hasher, now>>

\* The caller hands over other trusted issuers.
OtherTrustedIssuers ==
  /\ Edit
  /\ \E l \in TrustedIssuerLists \ {issuer_docs} : issuer_docs' = l
  /\ UNCHANGED <<sd_jwt, presented, options, holder_doc, hasher, now>>

\* Time passes.
Tick ==
  /\ Edit
  /\ now < MaxTime
  /\ now' = now + 1
  /\ UNCHANGED <<sd_jwt, presented, options, holder_doc, issuer_docs, hasher>>

inputs ==
  <<sd_jwt, presented, options, holder_doc, issuer_docs, hasher, now, edits,
    builder_vars, vc_vars, guard_vars>>

CallValidateCredential ==
  /\ last' = Call("validate_credential",
                  ValidateCredential(sd_jwt, issuer_docs, hasher, now))
  /\ UNCHANGED inputs

CallValidateCredentialV2 ==
  /\ last' = Call("validate_credential_v2",
                  ValidateCredentialV2(sd_jwt, issuer_docs, hasher, now))
  /\ UNCHANGED inputs

CallVerifySignature ==
  /\ last' = Call("verify_signature", VerifySignatureOf(sd_jwt, issuer_docs))
  /\ UNCHANGED inputs

CallValidateKeyBindingJwt ==
  /\ last' = Call("validate_key_binding_jwt",
                  ValidateKeyBindingJwt(sd_jwt, holder_doc, options, hasher, now))
  /\ UNCHANGED inputs

Next ==
  \/ AttachKeyBindingJwt
  \/ ParseOtherJws
  \/ ParseOtherDisclosures
  \/ ParseOtherKb
  \/ OptionsNonce
  \/ OptionsAud
  \/ OptionsEarliestIssuanceDate
  \/ OptionsLatestIssuanceDate
  \/ NewValidator
  \/ OtherHolderDocument
  \/ OtherTrustedIssuers
  \/ Tick
  \/ CallValidateCredential
  \/ CallValidateCredentialV2
  \/ CallVerifySignature
  \/ CallValidateKeyBindingJwt

Spec == Init /\ [][Next]_vars

---------------------------------------------------------------------------
(* The presentation builder's state machine: a token is issued from an     *)
(* object with some of its paths concealable, a builder is made for it,    *)
(* and conceal, conceal_all and disclose are called on the builder until   *)
(* finish; the finished token's object may then be reconstructed.          *)

\* The builder the next call is made on (None once a call has failed: the
\* calls take the builder by value).
CurrentBuilder == hist[Len(hist)]

CanCall == Len(ops) < MaxOps /\ IsSome(CurrentBuilder) /\ finished = None

Op(op, path, tag) == [op |-> op, path |-> path, tag |-> tag]

\* The paths handed to conceal and disclose: those of the object, and one
\* that is not in it.
CallPaths == PathsOf(issued.object) \cup {<<"vct">>}

PresentationInit ==
  /\ ValidatorInit
  /\ \E O \in Objects : \E P \in SUBSET PathsOf(O) : BuilderInit(O, P)
  /\ VcInit(TestVcInput)
  /\ GuardInit

CallConceal ==
  /\ CanCall
  /\ \E path \in CallPaths :
       LET r == Conceal(Unwrap(CurrentBuilder), path)
       IN /\ ops' = Append(ops, Op("conceal", path, r.tag))
          /\ hist' = Append(hist, r.builder)
  /\ UNCHANGED <<issued, finished, disclosed, validator_vars, vc_vars, guard_vars>>

CallConcealAll ==
  /\ CanCall
  /\ LET r == ConcealAll(Unwrap(CurrentBuilder))
     IN /\ ops' = Append(ops, Op("conceal_all", << >>, r.tag))
        /\ hist' = Append(hist, r.builder)
  /\ UNCHANGED <<issued, finished, disclosed, validator_vars, vc_vars, guard_vars>>

CallDisclose ==
  /\ CanCall
  /\ \E path \in CallPaths :
       LET r == Disclose(Unwrap(CurrentBuilder), path)
       IN /\ ops' = Append(ops, Op("disclose", path, r.tag))
          /\ hist' = Append(hist, r.builder)
  /\ UNCHANGED <<issued, finished, disclosed, validator_vars, vc_vars, guard_vars>>

CallFinish ==
  /\ IsSome(CurrentBuilder)
  /\ finished = None
  /\ finished' = Some(Finish(Unwrap(CurrentBuilder)))
  /\ UNCHANGED <<issued, ops, hist, disclosed, validator_vars, vc_vars, guard_vars>>

CallIntoDisclosedObject ==
  /\ IsSome(finished)
  /\ disclosed = None
  /\ disclosed' = Some(VcDisclosedObject(Unwrap(finished).token, SHA_ALG_NAME))
  /\ UNCHANGED <<issued, ops, hist, finished, validator_vars, vc_vars, guard_vars>>

PresentationNext ==
  \/ CallConceal
  \/ CallConcealAll
  \/ CallDisclose
  \/ CallFinish
  \/ CallIntoDisclosedObject

PresentationSpec == PresentationInit /\ [][PresentationNext]_vars

---------------------------------------------------------------------------
(* Issuance followed by validation with every disclosure present: the      *)
(* issued token is finished as it is and its object reconstructed, and     *)
(* the token of setup_test is validated.                                   *)

RoundTripNext ==
  \/ CallFinish
  \/ CallIntoDisclosedObject
  \/ CallValidateCredential

RoundTripSpec == PresentationInit /\ [][RoundTripNext]_vars


---------------------------------------------------------------------------
(* Parsing the claims of an SD-JWT VC: try_from_sd_jwt_claims is applied   *)
(* to claims and disclosures drawn from the modelled ones.                 *)

\* Disclosure lists of at most MaxDisclosed disclosures.
DisclosureLists ==
  UNION {[1 .. k -> {[claim_name |-> d] : d \in DisclosureNames}] :
           k \in 0 .. MaxDisclosed}

\* Claims with every choice of each claim's value.
ClaimMaps ==
  {[iss |-> c_iss, nbf |-> c_nbf, exp |-> c_exp, vct |-> c_vct,
    status |-> c_status, iat |-> c_iat, sub |-> c_sub, name |-> c_name] :
     c_iss \in ClaimChoices("iss"), c_nbf \in ClaimChoices("nbf"),
     c_exp \in ClaimChoices("exp"), c_vct \in ClaimChoices("vct"),
     c_status \in ClaimChoices("status"), c_iat \in ClaimChoices("iat"),
     c_sub \in ClaimChoices("sub"), c_name \in ClaimChoices("name")}

VcInputs ==
  {[claims |-> c, disclosures |-> ds] : c \in ClaimMaps, ds \in DisclosureLists}

VcClaimsInit ==
  /\ ValidatorInit
  /\ BuilderInit(TestObject, TestConcealable)
  /\ \E input \in VcInputs : VcInit(input)
  /\ GuardInit

CallTryFromSdJwtClaims ==
  /\ vc_parsed = None
  /\ vc_parsed' = Some(TryFromSdJwtClaims(vc_input.claims, vc_input.disclosures))
  /\ UNCHANGED <<vc_input, validator_vars, builder_vars, guard_vars>>

VcClaimsNext == CallTryFromSdJwtClaims

VcClaimsSpec == VcClaimsInit /\ [][VcClaimsNext]_vars

---------------------------------------------------------------------------
(* The binding layer's state machine: other code locks and unlocks the     *)
(* documents, and the validator's methods are called through the binding.  *)

BindingInit ==
  /\ ValidatorInit
  /\ BuilderInit(TestObject, TestConcealable)
  /\ VcInit(TestVcInput)
  /\ GuardInit

\* Other code takes the write guard of a document nobody holds.
OtherWriteLock ==
  /\ \E h \in Handles :
       /\ ~locks[h].writer
       /\ locks[h].readers = 0
       /\ Leaked(h) = 0
       /\ locks' = [locks EXCEPT ![h].writer = TRUE]
  /\ UNCHANGED <<binding_last, validator_vars, builder_vars, vc_vars>>

OtherWriteUnlock ==
  /\ \E h \in Handles :
       /\ locks[h].writer
       /\ locks' = [locks EXCEPT ![h].writer = FALSE]
  /\ UNCHANGED <<binding_last, validator_vars, builder_vars, vc_vars>>

\* Other code takes a read guard.
OtherReadLock ==
  /\ \E h \in Handles :
       /\ ~locks[h].writer
       /\ locks[h].readers < MaxReaders
       /\ locks' = [locks EXCEPT ![h].readers = @ + 1]
  /\ UNCHANGED <<binding_last, validator_vars, builder_vars, vc_vars>>

OtherReadUnlock ==
  /\ \E h \in Handles :
       /\ locks[h].readers > 0
       /\ locks' = [locks EXCEPT ![h].readers = @ - 1]
  /\ UNCHANGED <<binding_last, validator_vars, builder_vars, vc_vars>>

\* The binding call's effect on the state.
Bound(op, handles) ==
  LET r == BindingCall(locks, op, handles)
  IN /\ locks' = r.locks
     /\ binding_last' = r.call
     /\ UNCHANGED <<validator_vars, builder_vars, vc_vars>>

WasmValidateCredential ==
  \E issuer \in Handles : Bound("validate_credential", <<issuer>>)

WasmValidateCredentialV2 ==
  \E issuer \in Handles : Bound("validate_credential_v2", <<issuer>>)

\* trustedIssuers: up to two documents.
WasmVerifySignature ==
  \E trustedIssuers \in UNION {[1 .. k -> Handles] : k \in 0 .. 2} :
    Bound("verify_signature", trustedIssuers)

WasmValidateKeyBindingJwt ==
  \E holder \in Handles : Bound("validate_key_binding_jwt", <<holder>>)

BindingNext ==
  \/ OtherWriteLock
  \/ OtherWriteUnlock
  \/ OtherReadLock
  \/ OtherReadUnlock
  \/ WasmValidateCredential
  \/ WasmValidateCredentialV2
  \/ WasmVerifySignature
  \/ WasmValidateKeyBindingJwt

BindingSpec == BindingInit /\ [][BindingNext]_vars
---------------------------------------------------------------------------
(* Properties *)

KbCalled == last.op = "validate_key_binding_jwt"

CredCalled == last.op \in {"validate_credential", "validate_credential_v2"}

\* The lines of the function that made the last credential call.
LastCredLines ==
  CredLines(IF last.op = "validate_credential" THEN 1 ELSE 2)

\* The verification method the JWS header names as its signer.
SigningMethod == DIDUrlParse(sd_jwt.jws.kid)

\* The token's _sd_alg, sha-256 when absent.
TokenSdAlg ==
  IF IsSome(sd_jwt.jws.claims.sd_alg)
  THEN Unwrap(sd_jwt.jws.claims.sd_alg)
  ELSE "sha-256"

\* C1: validate_credential and validate_credential_v2 return a credential
\* only if its issuer DID is the DID of the verification method that signed
\* the JWS; when the comparison of the two DIDs is reached (lines 115-123,
\* 182-190) and they differ, the call fails with IdentifierMismatch{Issuer}.
C1_IssuerBinding ==
  CredCalled =>
    /\ last.res.tag = "Ok" =>
         /\ IsSome(SigningMethod)
         /\ Unwrap(last.res.value).issuer = Unwrap(SigningMethod).did
    /\ ( /\ last.res.line >= LastCredLines.extract
         /\ sd_jwt.jws.claims.iss \in DIDs
         /\ sd_jwt.jws.claims.iss # Unwrap(SigningMethod).did )
       => last.res = CredErr("IdentifierMismatch", "Issuer",
                             LastCredLines.mismatch)

\* A credential whose issuer is another DID than the signer's was rejected
\* by validate_credential_v2 at the comparison.
C1_Witness ==
  /\ last.op = "validate_credential_v2"
  /\ IsSome(SigningMethod)
  /\ sd_jwt.jws.claims.iss \in DIDs
  /\ sd_jwt.jws.claims.iss # Unwrap(SigningMethod).did
  /\ last.res.tag = "IdentifierMismatch"

\* The conditions under which validate_key_binding_jwt computes the digest:
\* cnf present, a KB-JWT attached, the holder's key resolved, the KB-JWT's
\* signature verified under it, and the hasher the token's _sd_alg.
KbDigestReached ==
  /\ IsSome(sd_jwt.jws.claims.cnf)
  /\ IsSome(sd_jwt.kb)
  /\ LET pk == HolderPk(Unwrap(sd_jwt.jws.claims.cnf), holder_doc)
     IN /\ IsSome(pk.key)
        /\ Unwrap(sd_jwt.kb).wellFormed
        /\ Unwrap(sd_jwt.kb).signedBy = Unwrap(pk.key)
  /\ TokenSdAlg = hasher

\* C2: when validate_key_binding_jwt compares the sd_hash (cnf present, a
\* KB-JWT attached whose signature verifies, hasher matching), the digest is
\* the validator's hasher over the wire text from its start through the last
\* `~`; an sd_hash that differs fails with InvalidDigest{expected: digest,
\* found: sd_hash}, and InvalidDigest is returned in no other case.
C2_SdHashDigest ==
  KbCalled =>
    LET digest == EncodedDigest(hasher, PresentedPrefix(sd_jwt))
    IN /\ KbDigestReached =>
            LET sd_hash == Unwrap(sd_jwt.kb).claims.sd_hash
            IN /\ sd_hash # digest =>
                    last.res = KbUnexpected("InvalidDigest", digest, sd_hash, 323)
               /\ sd_hash = digest => last.res.line > 323
       /\ last.res.tag = "InvalidDigest" => KbDigestReached

\* A KB-JWT with a valid signature whose sd_hash is not the digest of the
\* presented text was rejected with InvalidDigest.
C2_Witness ==
  /\ KbCalled
  /\ KbDigestReached
  /\ last.res.tag = "InvalidDigest"
  /\ Unwrap(last.res.found) = Unwrap(sd_jwt.kb).claims.sd_hash

\* The token T the attached KB-JWT was built for has a cnf, passes
\* validate_key_binding_jwt, and the token T' at hand carries the same
\* KB-JWT after text that differs somewhere before the last `~`.
SameKbOtherPrefix ==
  /\ IsSome(presented.jws.claims.cnf)
  /\ IsSome(presented.kb)
  /\ ValidateKeyBindingJwt(presented, holder_doc, options, hasher, now).tag = "Ok"
  /\ sd_jwt.kb = presented.kb
  /\ PresentedPrefix(sd_jwt) # PresentedPrefix(presented)

\* C3 as stated: every token T' that carries the KB-JWT of a passing token T
\* and differs from T before the last `~` fails validate_key_binding_jwt.
C3_AnyOtherPrefixFails ==
  (KbCalled /\ SameKbOtherPrefix) => last.res.tag # "Ok"

\* C3, amended: every such token T' that still carries a cnf claim fails
\* validate_key_binding_jwt (a T' whose JWS has no cnf passes, by the early
\* return for tokens that require no key binding).
C3_DigestBinding ==
  (KbCalled /\ SameKbOtherPrefix /\ IsSome(sd_jwt.jws.claims.cnf))
    => last.res.tag # "Ok"

\* A token with a disclosure removed, carrying the KB-JWT of the full token,
\* was rejected at the sd_hash comparison.
C3_Witness ==
  /\ KbCalled
  /\ SameKbOtherPrefix
  /\ IsSome(sd_jwt.jws.claims.cnf)
  /\ Len(sd_jwt.disclosures) < Len(presented.disclosures)
  /\ last.res.tag = "InvalidDigest"

\* C4: validate_key_binding_jwt succeeds whenever the token has no cnf claim,
\* whatever the holder document and the options, with or without a KB-JWT.
C4_NoCnfSucceeds ==
  (KbCalled /\ ~IsSome(sd_jwt.jws.claims.cnf)) => last.res = KbOk(260)

\* A token without cnf that carries a KB-JWT which does not even decode
\* passed.
C4_Witness ==
  /\ KbCalled
  /\ ~IsSome(sd_jwt.jws.claims.cnf)
  /\ IsSome(sd_jwt.kb)
  /\ ~Unwrap(sd_jwt.kb).wellFormed
  /\ last.res.tag = "Ok"

\* C5: validate_key_binding_jwt fails with MissingKeyBindingJwt whenever the
\* token has a cnf claim and no KB-JWT, whatever the cnf, the holder document
\* and the options.
C5_MissingKeyBindingJwt ==
  (KbCalled /\ IsSome(sd_jwt.jws.claims.cnf) /\ ~IsSome(sd_jwt.kb))
    => last.res = KbErr("MissingKeyBindingJwt", "-", "-", 264)

\* A token with an unsupported cnf and no KB-JWT failed with
\* MissingKeyBindingJwt.
C5_Witness ==
  /\ KbCalled
  /\ sd_jwt.jws.claims.cnf = Some(CnfOther)
  /\ ~IsSome(sd_jwt.kb)
  /\ last.res.tag = "MissingKeyBindingJwt"

\* The token's cnf is present and neither a kid nor a jwk binding.
UnsupportedCnf ==
  /\ IsSome(sd_jwt.jws.claims.cnf)
  /\ Unwrap(sd_jwt.jws.claims.cnf).kind \notin {"Kid", "Jwk"}

\* C6: a token whose cnf is neither a kid nor a jwk binding is never accepted
\* by validate_key_binding_jwt; once the cnf is looked at (a KB-JWT being
\* attached) the error is UnsupportedCnfMethod.
C6_UnsupportedCnf ==
  (KbCalled /\ UnsupportedCnf) =>
    /\ last.res.tag # "Ok"
    /\ IsSome(sd_jwt.kb) =>
         last.res = KbErr("UnsupportedCnfMethod", "-", "-", 296)

\* A token with an unsupported cnf and a KB-JWT failed with
\* UnsupportedCnfMethod.
C6_Witness ==
  /\ KbCalled
  /\ UnsupportedCnf
  /\ IsSome(sd_jwt.kb)
  /\ last.res.tag = "UnsupportedCnfMethod"

\* The token's cnf is a kid that parses as a DID URL, and a KB-JWT is
\* attached, so that validate_key_binding_jwt looks the kid up.
KidLookedUp ==
  /\ IsSome(sd_jwt.jws.claims.cnf)
  /\ Unwrap(sd_jwt.jws.claims.cnf).kind = "Kid"
  /\ IsSome(DIDUrlParse(Unwrap(sd_jwt.jws.claims.cnf).v))
  /\ IsSome(sd_jwt.kb)

\* The DID URL of the cnf kid.
CnfMethodId == Unwrap(DIDUrlParse(Unwrap(sd_jwt.jws.claims.cnf).v))

\* The JWKs the holder document holds under the fragment of the cnf kid.
HolderDocJwks ==
  {m.jwk : m \in {x \in holder_doc.methods :
                    x.fragment = CnfMethodId.fragment /\ IsSome(x.jwk)}}

\* C7: with cnf = {kid}, validate_key_binding_jwt takes the holder's key only
\* from the supplied holder document and only if the DID of kid is that
\* document's id: when the DIDs differ it fails with DocumentMismatch{Holder}
\* before any signature is verified; when they agree and the document has no
\* method with a JWK under kid it fails with a MethodDataLookupError; and a
\* call that got as far as verifying the KB-JWT's signature used a JWK of the
\* document, which the signature matches if the call got further.
C7_KidHolderKey ==
  (KbCalled /\ KidLookedUp) =>
    /\ holder_doc.id # CnfMethodId.did =>
         last.res = KbErr("DocumentMismatch", "Holder", "-", 281)
    /\ (holder_doc.id = CnfMethodId.did /\ HolderDocJwks = {}) =>
         /\ last.res.tag = "MethodDataLookupError"
         /\ last.res.ctx = "Holder"
         /\ last.res.line = 289
    /\ last.res.line >= 299 =>
         /\ holder_doc.id = CnfMethodId.did
         /\ HolderDocJwks # {}
    /\ last.res.line > 303 =>
         Some(Unwrap(sd_jwt.kb).signedBy) \in HolderDocJwks

\* A kid of another DID than the holder document's was rejected with
\* DocumentMismatch{Holder}.
C7_Witness ==
  /\ KbCalled
  /\ KidLookedUp
  /\ holder_doc.id # CnfMethodId.did
  /\ last.res.tag = "DocumentMismatch"
  /\ last.res.ctx = "Holder"

\* C8: at the hasher check, validation fails with the hasher-mismatch error
\* exactly if the token's _sd_alg (sha-256 when absent) is not the name of
\* the validator's hasher: in validate_key_binding_jwt once the KB-JWT's
\* signature is verified (line 310), in validate_credential and
\* validate_credential_v2 at claim reconstruction (lines 101, 171); and no
\* call returns that error when the two names agree.
C8_HasherLockstep ==
  /\ KbCalled =>
       /\ last.res.tag = "InvalidHasher" =>
            (TokenSdAlg # hasher /\ last.res.found = Some(hasher))
       /\ (last.res.line >= 311 /\ TokenSdAlg # hasher) =>
            last.res.tag = "InvalidHasher"
  /\ CredCalled =>
       /\ last.res.tag = "InvalidHasher" => TokenSdAlg # hasher
       /\ (last.res.line >= LastCredLines.object /\ TokenSdAlg # hasher) =>
            last.res.tag = "InvalidHasher"

\* A token without _sd_alg was rejected by validate_key_binding_jwt under a
\* sha-512 hasher.
C8_Witness ==
  /\ KbCalled
  /\ ~IsSome(sd_jwt.jws.claims.sd_alg)
  /\ hasher = "sha-512"
  /\ last.res.tag = "InvalidHasher"

\* The token at hand with the nonce of its KB-JWT replaced.
WithKbNonce(n) ==
  [sd_jwt EXCEPT !.kb = Some([Unwrap(sd_jwt.kb) EXCEPT !.claims.nonce = n])]

\* The token at hand with the aud of its KB-JWT replaced.
WithKbAud(a) ==
  [sd_jwt EXCEPT !.kb = Some([Unwrap(sd_jwt.kb) EXCEPT !.claims.aud = a])]

\* C9: in validate_key_binding_jwt the options nonce and aud constrain the
\* KB-JWT only when set.  When the nonce check is reached (line 329), a set
\* nonce that differs from the KB-JWT's fails with InvalidNonce{expected:
\* option, found: KB-JWT's}; when the aud check is reached (line 338), a set
\* aud that differs fails with AudienceMismatch{expected, found}; with the
\* option unset the result is the same for every value of that claim.
C9_NonceAudOptions ==
  (KbCalled /\ IsSome(sd_jwt.kb)) =>
    LET claims == Unwrap(sd_jwt.kb).claims
    IN /\ ( /\ last.res.line >= 331
            /\ IsSome(options.nonce)
            /\ Unwrap(options.nonce) # claims.nonce )
          => last.res = KbUnexpected("InvalidNonce", Unwrap(options.nonce),
                                     claims.nonce, 331)
       /\ ( /\ last.res.line >= 340
            /\ IsSome(options.aud)
            /\ Unwrap(options.aud) # claims.aud )
          => last.res = KbUnexpected("AudienceMismatch", Unwrap(options.aud),
                                     claims.aud, 340)
       /\ last.res.tag = "InvalidNonce" =>
            (IsSome(options.nonce) /\ Unwrap(options.nonce) # claims.nonce)
       /\ last.res.tag = "AudienceMismatch" =>
            (IsSome(options.aud) /\ Unwrap(options.aud) # claims.aud)
       /\ ~IsSome(options.nonce) =>
            \A n \in Nonces :
              ValidateKeyBindingJwt(WithKbNonce(n), holder_doc, options,
                                    hasher, now) = last.res
       /\ ~IsSome(options.aud) =>
            \A a \in Auds :
              ValidateKeyBindingJwt(WithKbAud(a), holder_doc, options,
                                    hasher, now) = last.res

\* A KB-JWT with nonce "nonce-test" was rejected under the option nonce
\* "nonce-other" with InvalidNonce{expected: "nonce-other", found:
\* "nonce-test"}.
C9_Witness ==
  /\ KbCalled
  /\ last.res.tag = "InvalidNonce"
  /\ last.res.expected = Some("nonce-other")
  /\ last.res.found = Some(NONCE)

\* C10: in validate_key_binding_jwt, when the earliest_issuance_date check is
\* reached (line 350) with the option set, a KB-JWT whose iat is strictly
\* earlier is rejected with IssuanceDate, and an iat equal to it is not
\* rejected by this check.
C10_EarliestIssuanceDate ==
  (KbCalled /\ IsSome(sd_jwt.kb) /\ IsSome(options.earliest_issuance_date)) =>
    LET iat == Unwrap(sd_jwt.kb).claims.iat
        earliest == Unwrap(options.earliest_issuance_date)
    IN /\ (last.res.line >= 352 /\ iat < earliest) =>
            last.res = KbErr("IssuanceDate", "-",
                         "value is earlier than earliest_issuance_date", 352)
       /\ iat >= earliest => last.res.line # 352

\* A KB-JWT issued at 1 was rejected with IssuanceDate under
\* earliest_issuance_date = 2.
C10_Witness ==
  /\ KbCalled
  /\ IsSome(options.earliest_issuance_date)
  /\ Unwrap(sd_jwt.kb).claims.iat < Unwrap(options.earliest_issuance_date)
  /\ last.res.tag = "IssuanceDate"
  /\ last.res.line = 352


\* The upper bound validate_key_binding_jwt puts on iat.
IatUpperBound ==
  IF IsSome(options.latest_issuance_date)
  THEN Unwrap(options.latest_issuance_date)
  ELSE now

\* C11: in validate_key_binding_jwt, when the upper-bound check on iat is
\* reached (line 358), the bound is latest_issuance_date when set and the
\* current time otherwise: an iat strictly later than the bound is rejected
\* with IssuanceDate ("value is in the future" when the bound is the current
\* time), and an iat up to and including the bound is accepted.
C11_LatestIssuanceDate ==
  (KbCalled /\ IsSome(sd_jwt.kb) /\ last.res.line >= 360) =>
    LET iat == Unwrap(sd_jwt.kb).claims.iat
    IN /\ (iat > IatUpperBound /\ IsSome(options.latest_issuance_date)) =>
            last.res = KbErr("IssuanceDate", "-",
                         "value is later than latest_issuance_date", 360)
       /\ (iat > IatUpperBound /\ ~IsSome(options.latest_issuance_date)) =>
            last.res = KbErr("IssuanceDate", "-", "value is in the future", 365)
       /\ iat <= IatUpperBound => last.res = KbOk(368)

\* A KB-JWT issued one second after the current time was rejected with
\* "value is in the future", no latest_issuance_date being set.
C11_Witness ==
  /\ KbCalled
  /\ IsSome(sd_jwt.kb)
  /\ ~IsSome(options.latest_issuance_date)
  /\ Unwrap(sd_jwt.kb).claims.iat = now + 1
  /\ last.res = KbErr("IssuanceDate", "-", "value is in the future", 365)

\* A KB-JWT whose iat is the latest_issuance_date was accepted.
C11_WitnessEqual ==
  /\ KbCalled
  /\ IsSome(sd_jwt.kb)
  /\ options.latest_issuance_date = Some(Unwrap(sd_jwt.kb).claims.iat)
  /\ last.res = KbOk(368)


\* C12: validate_key_binding_jwt rejects every KB-JWT whose header typ is not
\* `kb+jwt`, even when its signature, sd_hash, nonce, aud and iat are valid.
C12_TypRejected ==
  ( /\ KbCalled
    /\ IsSome(sd_jwt.jws.claims.cnf)
    /\ IsSome(sd_jwt.kb)
    /\ Unwrap(sd_jwt.kb).typ # KB_JWT_HEADER_TYP )
  => last.res.tag # "Ok"


\* The KB-JWT parts a token may carry: none, one built for it by the holder
\* under any of the builder's inputs, or such a one that does not decode.
KbVariants ==
  LET built == {KbBuilderFinish(sd_jwt, i.aud, i.nonce, i.iat, i.key, i.h) :
                  i \in KbInputChoices(now)}
  IN {None} \cup {Some(k) : k \in built}
            \cup {Some([k EXCEPT !.wellFormed = FALSE]) : k \in built}

\* C13: validate_credential (and validate_credential_v2) does not validate
\* the KB-JWT: for the same trusted issuers, hasher and time, every token
\* that differs from the one validated only in its KB-JWT part (absent, valid
\* or invalid) gets the same result.
C13_KbIgnored ==
  /\ last.op = "validate_credential" =>
       \A k \in KbVariants \cup {presented.kb} :
         ValidateCredential([sd_jwt EXCEPT !.kb = k], issuer_docs, hasher, now)
           = last.res
  /\ last.op = "validate_credential_v2" =>
       \A k \in KbVariants \cup {presented.kb} :
         ValidateCredentialV2([sd_jwt EXCEPT !.kb = k], issuer_docs, hasher, now)
           = last.res

\* validate_credential returned the credential of a token that requires key
\* binding and carries a KB-JWT which does not decode.
C13_Witness ==
  /\ last.op = "validate_credential"
  /\ IsSome(sd_jwt.jws.claims.cnf)
  /\ IsSome(sd_jwt.kb)
  /\ ~Unwrap(sd_jwt.kb).wellFormed
  /\ last.res.tag = "Ok"

\* The public keys the trusted issuers' documents hold for the method the
\* JWS header names.
IssuerKeys ==
  IF ~IsSome(SigningMethod) THEN {}
  ELSE {m.jwk : m \in UNION {
          {x \in issuer_docs[i].methods :
             /\ issuer_docs[i].id = Unwrap(SigningMethod).did
             /\ x.fragment = Unwrap(SigningMethod).fragment
             /\ IsSome(x.jwk)} : i \in 1 .. Len(issuer_docs)}}

\* The leading JWS verifies against a trusted issuer's method.
JwsVerified == Some(sd_jwt.jws.signedBy) \in IssuerKeys

\* C14: verify_signature performs only the issuer-JWS steps: it succeeds
\* exactly for the tokens whose leading JWS verifies against a trusted
\* issuer's method, whatever the token's disclosures, _sd_alg, temporal
\* claims, issuer claim, cnf or KB-JWT.
C14_VerifySignatureOnly ==
  last.op = "verify_signature" =>
    /\ JwsVerified => last.res = CredErr("Ok", "-", 216)
    /\ ~JwsVerified => (last.res.tag # "Ok" /\ last.res.line = 214)

\* verify_signature succeeded on a token whose _sd_alg is not the validator's
\* hasher or whose issuer claim is not the signer's DID.
C14_Witness ==
  /\ last.op = "verify_signature"
  /\ last.res.tag = "Ok"
  /\ \/ TokenSdAlg # hasher
     \/ sd_jwt.jws.claims.iss # Unwrap(SigningMethod).did

\* The claims are reconstructed under the validator's hasher: it is the
\* token's _sd_alg and every disclosure's digest is among the claims.
ClaimsReconstructed ==
  /\ TokenSdAlg = hasher
  /\ \A i \in 1 .. Len(sd_jwt.disclosures) :
       EncodedDigest(hasher, sd_jwt.disclosures[i]) \in sd_jwt.jws.claims.sd

\* The reconstructed claims have the shape of the credential asked for.
CredentialShaped ==
  sd_jwt.jws.claims.shape = (IF last.op = "validate_credential" THEN "v1" ELSE "v2")

\* The credential is not expired, already issued, and well structured.
TemporalOk ==
  /\ IsSome(sd_jwt.jws.claims.exp) => Unwrap(sd_jwt.jws.claims.exp) >= now
  /\ sd_jwt.jws.claims.nbf <= now
  /\ sd_jwt.jws.claims.structure = "ok"

\* The credential's issuer is a DID, the DID of the signing method.
IssuerBound ==
  /\ sd_jwt.jws.claims.iss \in DIDs
  /\ IsSome(SigningMethod)
  /\ sd_jwt.jws.claims.iss = Unwrap(SigningMethod).did

\* C15: validate_credential (and validate_credential_v2) returns a
\* credential exactly if every step succeeded - issuer JWS verification,
\* claim reconstruction under the validator's hasher, shaping, temporal and
\* structural validation, the issuer-binding check - and otherwise returns
\* the error of the first step that fails, whatever the later steps would
\* have found, and no credential.
C15_ShortCircuit ==
  CredCalled =>
    LET ln == LastCredLines
    IN /\ last.res.tag = "Ok" <=>
            ( JwsVerified /\ ClaimsReconstructed /\ CredentialShaped
              /\ TemporalOk /\ IssuerBound )
       /\ last.res.tag = "Ok" <=> IsSome(last.res.value)
       /\ ~JwsVerified => last.res.line = ln.sig
       /\ (JwsVerified /\ ~ClaimsReconstructed) => last.res.line = ln.object
       /\ (JwsVerified /\ ClaimsReconstructed /\ ~CredentialShaped) =>
            /\ last.res.tag = "CredentialStructure"
            /\ last.res.line \in {ln.deserialize, ln.into}
       /\ ( JwsVerified /\ ClaimsReconstructed /\ CredentialShaped
            /\ ~TemporalOk ) => last.res.line = ln.decoded
       /\ ( JwsVerified /\ ClaimsReconstructed /\ CredentialShaped
            /\ TemporalOk /\ ~IssuerBound ) =>
            last.res.line \in {ln.extract, ln.mismatch}

\* An expired credential whose issuer is not the signer was rejected with
\* ExpirationDate, the error of the earlier of the two failing steps.
C15_Witness ==
  /\ last.op = "validate_credential"
  /\ JwsVerified /\ ClaimsReconstructed /\ CredentialShaped
  /\ ~TemporalOk /\ ~IssuerBound
  /\ last.res = CredErr("ExpirationDate", "-", 113)


\* The credential setup_test issues the token from.
IssuedCredential ==
  [issuer |-> "did:issuer",
   issuance_date |-> 1,
   expiration_date |-> None,
   structure |-> "ok",
   subject |-> {"D1", "D2"}]

Retained(i) == Unwrap(hist[i]).builder.retained

\* The disclosure the issuer made for the concealable path p.
DisclosureFor(p) ==
  DisclosureOf(issued.object, issued.concealable, SHA_ALG_NAME, p)

\* The disclosures of the concealable nodes at and below p.
DisclosuresUnder(p) ==
  {DisclosureFor(q) : q \in {x \in issued.concealable : IsPrefix(p, x)}}

\* The disclosures of the concealable nodes strictly below p.
DisclosuresBelow(p) ==
  {DisclosureFor(q) : q \in {x \in issued.concealable : IsStrictPrefix(p, x)}}

\* The test's token, with conceal("/address") the only call and finish done.
TestPresentation ==
  /\ issued.object = TestObject
  /\ issued.concealable = TestConcealable
  /\ ops = <<Op("conceal", <<"address">>, "Ok")>>
  /\ IsSome(finished)

\* C17: conceal(path) on a disclosable path succeeds and removes the
\* disclosure of the node at path and of every disclosable node below it,
\* and nothing else; finish returns the removed disclosures.  On the test's
\* token (/address and /address/street_address concealable) conceal("/address")
\* makes finish return the disclosures named street_address and address, and
\* neither the resulting claims nor the object reconstructed from the
\* resulting token has an `address` property.
C17_ConcealSubtree ==
  /\ \A i \in 1 .. Len(ops) :
       (ops[i].op = "conceal" /\ ops[i].path \in issued.concealable) =>
         /\ ops[i].tag = "Ok"
         /\ Retained(i + 1) = Retained(i) \ DisclosuresUnder(ops[i].path)
  /\ IsSome(finished) =>
       Range(Unwrap(finished).disclosures) =
         {DisclosureFor(q) : q \in issued.concealable} \ Retained(Len(hist))
  /\ TestPresentation =>
       /\ [i \in 1 .. Len(Unwrap(finished).disclosures) |->
             Unwrap(finished).disclosures[i].claim_name]
            = <<"street_address", "address">>
       /\ \A n \in Unwrap(finished).token.parsed_claims.sd_jwt_claims.plain :
            n.path[1] # "address"
       /\ IsSome(disclosed) =>
            /\ Unwrap(disclosed).tag = "Ok"
            /\ \A n \in Unwrap(Unwrap(disclosed).object) : n.path[1] # "address"

\* The test: after conceal("/address") the finished token's object was
\* reconstructed, without an address.
C17_Witness ==
  /\ TestPresentation
  /\ IsSome(disclosed)
  /\ Len(Unwrap(finished).disclosures) = 2
  /\ Unwrap(disclosed).tag = "Ok"

\* C18: conceal is idempotent.  A second conceal(p) right after a conceal(p)
\* on a disclosable path succeeds and leaves the builder as the first left
\* it, so that finish returns the same token and the same removed
\* disclosures; and in every state of the builder conceal(p) applied twice
\* gives what it gives applied once.
C18_ConcealIdempotent ==
  /\ \A i \in 1 .. Len(ops) - 1 :
       ( /\ ops[i] = Op("conceal", ops[i].path, "Ok")
         /\ ops[i + 1].op = "conceal"
         /\ ops[i + 1].path = ops[i].path ) =>
         /\ ops[i + 1].tag = "Ok"
         /\ Retained(i + 2) = Retained(i + 1)
         /\ Finish(Unwrap(hist[i + 2])) = Finish(Unwrap(hist[i + 1]))
  /\ IsSome(CurrentBuilder) =>
       \A p \in issued.concealable :
         LET once == Conceal(Unwrap(CurrentBuilder), p)
         IN /\ once.tag = "Ok"
            /\ Conceal(Unwrap(once.builder), p) = once

\* conceal was called twice in a row on a path with a disclosable node
\* below it, and the builder finished.
C18_Witness ==
  /\ Len(ops) = 2
  /\ ops[1] = Op("conceal", ops[1].path, "Ok")
  /\ ops[2] = ops[1]
  /\ DisclosuresBelow(ops[1].path) # {}
  /\ Retained(3) = Retained(2)
  /\ IsSome(finished)

\* conceal(p) then disclose(p) were the two calls made on a fresh builder,
\* p being disclosable.
ConcealThenDisclose ==
  /\ Len(ops) = 2
  /\ ops[1].op = "conceal"
  /\ ops[2].op = "disclose"
  /\ ops[1].path = ops[2].path
  /\ ops[1].path \in issued.concealable

\* C19 as stated: on a fresh builder conceal(p) followed by disclose(p)
\* retains the original set of disclosures, also when the node at p has
\* disclosable descendants.
C19_ConcealDiscloseRestores ==
  ConcealThenDisclose =>
    /\ ops[2].tag = "Ok"
    /\ Retained(3) = Retained(1)

\* C19, amended: on a fresh builder conceal(p) followed by disclose(p)
\* retains the original set of disclosures less those of the disclosable
\* descendants of the node at p, which stay removed; it is the original set
\* when the node at p has no disclosable descendants.
C19_ConcealDisclose ==
  ConcealThenDisclose =>
    /\ ops[1].tag = "Ok"
    /\ ops[2].tag = "Ok"
    /\ Retained(3) = Retained(1) \ DisclosuresBelow(ops[1].path)
    /\ DisclosuresBelow(ops[1].path) = {} => Retained(3) = Retained(1)

\* A node under a disclosable node, itself without disclosable descendants,
\* was concealed and disclosed again, and every disclosure is retained.
C19_Witness ==
  /\ ConcealThenDisclose
  /\ DisclosuresBelow(ops[1].path) = {}
  /\ \E a \in issued.concealable : IsStrictPrefix(a, ops[1].path)
  /\ DisclosureFor(ops[1].path) \notin Retained(2)
  /\ Retained(3) = Retained(1)

\* C20: monotone concealment.  For every disclosable path p and every
\* disclosable ancestor a of p, what the builder retains after conceal(a) -
\* and so the retained disclosures of the nodes below a - is a subset of
\* what it retains after conceal(p) alone, from the same builder.
C20_MonotoneConcealment ==
  \A i \in 1 .. Len(ops) :
    (ops[i].op = "conceal" /\ ops[i].path \in issued.concealable) =>
      \A p \in {x \in issued.concealable : IsStrictPrefix(ops[i].path, x)} :
        LET only_p == Unwrap(Conceal(Unwrap(hist[i]), p).builder).builder.retained
        IN /\ ops[i].tag = "Ok"
           /\ Retained(i + 1) \subseteq only_p
           /\ Retained(i + 1) \cap DisclosuresBelow(ops[i].path)
                \subseteq only_p \cap DisclosuresBelow(ops[i].path)

\* An ancestor of two disclosable nodes was concealed on a fresh builder:
\* none of their disclosures is retained, while concealing one of them alone
\* retains the other's.
C20_Witness ==
  /\ Len(ops) = 1
  /\ ops[1].op = "conceal"
  /\ ops[1].tag = "Ok"
  /\ Retained(2) \cap DisclosuresBelow(ops[1].path) = {}
  /\ \E p \in {x \in issued.concealable : IsStrictPrefix(ops[1].path, x)} :
       Unwrap(Conceal(Unwrap(hist[1]), p).builder).builder.retained
         \cap DisclosuresBelow(ops[1].path) # {}


\* The disclosures of the token the builder was made for, in its order.
SourceDisclosures == issued.token.sd_jwt.disclosures

\* The place of a disclosure in the source token.
SourcePlace(d) ==
  CHOOSE i \in 1 .. Len(SourceDisclosures) : SourceDisclosures[i] = d

\* s holds no element twice and its elements stand in the order they have
\* in the source token.
InSourceOrder(s) ==
  \A i \in 1 .. Len(s) : \A j \in 1 .. Len(s) :
    i < j => SourcePlace(s[i]) < SourcePlace(s[j])

\* C21: finish, after any sequence of conceal, conceal_all and disclose,
\* returns a token whose disclosures are exactly the retained ones, in the
\* relative order of the source token, and the removed ones; retained and
\* removed are disjoint and together the source token's disclosures.  After
\* conceal_all alone the token has no disclosure and all are removed.
C21_FinishPartition ==
  IsSome(finished) =>
    LET kept == Unwrap(finished).token.sd_jwt.disclosures
        removed == Unwrap(finished).disclosures
    IN /\ Range(kept) = Retained(Len(hist))
       /\ Range(kept) \subseteq Range(SourceDisclosures)
       /\ InSourceOrder(kept)
       /\ Range(kept) \cap Range(removed) = {}
       /\ Range(kept) \cup Range(removed) = Range(SourceDisclosures)
       /\ Len(kept) + Len(removed) = Len(SourceDisclosures)
       /\ ops = <<Op("conceal_all", << >>, "Ok")>> =>
            kept = << >> /\ Range(removed) = Range(SourceDisclosures)

\* A builder finished after a conceal and a disclose, with two or more
\* disclosures retained and one or more removed.
C21_Witness ==
  /\ IsSome(finished)
  /\ Len(ops) = 2
  /\ ops[1].op = "conceal" /\ ops[1].tag = "Ok"
  /\ ops[2].op = "disclose" /\ ops[2].tag = "Ok"
  /\ Len(Unwrap(finished).token.sd_jwt.disclosures) >= 2
  /\ Len(Unwrap(finished).disclosures) >= 1

\* A builder finished after conceal_all alone on a token with disclosures.
C21_WitnessConcealAll ==
  /\ IsSome(finished)
  /\ ops = <<Op("conceal_all", << >>, "Ok")>>
  /\ Len(SourceDisclosures) >= 2
  /\ Unwrap(finished).token.sd_jwt.disclosures = << >>


\* The last segment of a token's wire form.
LastSegment(tok) == Presentation(tok)[Len(Presentation(tok))]

\* The wire form ends with the KB-JWT when there is one, else with `~`.
WireFormEnd ==
  IF IsSome(sd_jwt.kb)
  THEN LastSegment(sd_jwt) = Seg(Unwrap(sd_jwt.kb)) /\ ~LastSegment(sd_jwt).sep
  ELSE LastSegment(sd_jwt) = Tilde

\* What attaching kb_jwt leaves: that KB-JWT and no other, after the JWS and
\* the disclosures as they were.
Attached(kb_jwt) ==
  /\ sd_jwt'.kb = Some(kb_jwt)
  /\ sd_jwt'.jws = sd_jwt.jws
  /\ sd_jwt'.disclosures = sd_jwt.disclosures
  /\ Presentation(sd_jwt') =
       Presentation([sd_jwt EXCEPT !.kb = None]) \o <<Seg(kb_jwt)>>
  /\ LastSegment(sd_jwt') # Tilde

\* What every step of AttachKeyBindingJwt leaves alone.
AttachFrame ==
  /\ edits' = edits + 1
  /\ presented' = sd_jwt'
  /\ UNCHANGED <<options, holder_doc, issuer_docs, hasher, now>>

\* C22: every attach_key_binding_jwt leaves the token with exactly one
\* KB-JWT, the one just attached, whether or not it carried one before; the
\* JWS and the disclosure list are unchanged; the wire form ends with that
\* KB-JWT and not with `~`, and the wire form of a token without a KB-JWT
\* ends with `~`.
C22_AttachReplaces ==
  /\ []WireFormEnd
  /\ [][AttachFrame =>
          \A i \in KbInputChoices(now) :
            LET kb_jwt ==
                  KbBuilderFinish(sd_jwt, i.aud, i.nonce, i.iat, i.key, i.h)
            IN (sd_jwt' = AttachKb(sd_jwt, kb_jwt) /\ AttachKeyBindingJwt)
                 => Attached(kb_jwt)]_vars

\* A KB-JWT other than the one of setup_test was attached to its token,
\* which carried a KB-JWT already.
C22_Witness ==
  /\ edits >= 1
  /\ IsSome(sd_jwt.kb)
  /\ Unwrap(sd_jwt.kb).wellFormed
  /\ Unwrap(sd_jwt.kb).typ = KB_JWT_HEADER_TYP
  /\ Unwrap(sd_jwt.kb).claims.nonce # NONCE
  /\ sd_jwt.jws = IssuedSdJwt.jws
  /\ sd_jwt.disclosures = IssuedSdJwt.disclosures
  /\ LastSegment(sd_jwt) = Seg(Unwrap(sd_jwt.kb))

\* A token without a KB-JWT, whose wire form ends with `~`.
C22_WitnessNoKb ==
  /\ sd_jwt.kb = None
  /\ LastSegment(sd_jwt) = Tilde


\* The token whose claims are parsed has a disclosure with claim name n.
HasDisclosureNamed(n) ==
  \E i \in 1 .. Len(vc_input.disclosures) :
    vc_input.disclosures[i].claim_name = Some(n)

\* The result of the parse (where there is one).
VcResult == Unwrap(vc_parsed)

\* C23: vct is required.  Where the parse reaches vct (iss, nbf and exp have
\* passed): without a vct claim the result is MissingClaim("vct"), unless a
\* disclosure of the token is named vct, and then it is
\* DisclosedClaim("vct"); a vct that is not a string gives InvalidClaimValue
\* for vct.  No parse succeeds without a string vct, and a successful parse
\* has that string as its vct.
C23_VctRequired ==
  IsSome(vc_parsed) =>
    LET vct == vc_input.claims["vct"]
    IN /\ (VcResult.line >= 128 /\ vct = None /\ ~HasDisclosureNamed("vct")) =>
            VcResult = VcErr("MissingClaim", "vct", 130)
       /\ (VcResult.line >= 128 /\ vct = None /\ HasDisclosureNamed("vct")) =>
            VcResult = VcErr("DisclosedClaim", "vct", 131)
       /\ (VcResult.line >= 128 /\ IsSome(vct) /\ Unwrap(vct).t # "string") =>
            /\ VcResult.tag = "InvalidClaimValue"
            /\ VcResult.name = "vct"
            /\ VcResult.found = Unwrap(vct)
       /\ (vct = None \/ Unwrap(vct).t # "string") => VcResult.tag # "Ok"
       /\ VcResult.tag = "Ok" =>
            /\ IsSome(vct)
            /\ Unwrap(vct).t = "string"
            /\ VcResult.value.vct = Unwrap(vct).s

\* Claims without vct were parsed for a token with a disclosure named vct.
C23_Witness ==
  /\ IsSome(vc_parsed)
  /\ vc_input.claims["vct"] = None
  /\ HasDisclosureNamed("vct")
  /\ VcResult = VcErr("DisclosedClaim", "vct", 131)

\* Claims without vct were parsed for a token without such a disclosure.
C23_WitnessMissing ==
  /\ IsSome(vc_parsed)
  /\ vc_input.claims["vct"] = None
  /\ ~HasDisclosureNamed("vct")
  /\ VcResult = VcErr("MissingClaim", "vct", 130)

\* Claims with a string vct were parsed.
C23_WitnessOk ==
  /\ IsSome(vc_parsed)
  /\ VcResult.tag = "Ok"
  /\ VcResult.value.vct = "https://example.com/education_credential"


\* The reserved claim names C24 lists.
ReservedDisclosureNames == {"iss", "nbf", "exp", "iat", "sub", "status"}

\* C24 as stated, in its weakest reading: claims parsed for a token with a
\* disclosure named n, n one of iss, nbf, exp, iat, sub and status and not
\* among the claims in plain, are rejected - with DisclosedClaim(n) when the
\* parse gets as far as n.
C24_ReservedDisclosureRejected ==
  IsSome(vc_parsed) =>
    \A n \in ReservedDisclosureNames :
      (HasDisclosureNamed(n) /\ vc_input.claims[n] = None) =>
        /\ VcResult.tag # "Ok"
        /\ VcResult.tag = "DisclosedClaim" => VcResult.name = n

\* What the parse does check: a token with a disclosure named nbf, exp or
\* status and no such claim in plain is rejected, with DisclosedClaim of that
\* name when no earlier field fails.
C24_CheckedNames ==
  IsSome(vc_parsed) =>
    \A n \in {"nbf", "exp", "status"} :
      (HasDisclosureNamed(n) /\ vc_input.claims[n] = None) =>
        /\ VcResult.tag # "Ok"
        /\ VcResult.tag = "DisclosedClaim" => VcResult.name = n

\* The parse of a token with a disclosure named iss, iat or sub succeeded.
C24_DisclosedAccepted ==
  /\ IsSome(vc_parsed)
  /\ VcResult.tag = "Ok"
  /\ \E n \in {"iss", "iat", "sub"} :
       HasDisclosureNamed(n) /\ vc_input.claims[n] = None


\* C25: a call made through the binding layer holds its read guards only
\* while it runs.  After it has returned - with success, with a validation
\* error, or because a guard could not be taken, also when only some of the
\* issuer documents of verify_signature could be locked - it holds no read
\* guard; it fails with the lock error exactly when one of its documents was
\* write-locked, and then the core's validator has not run.
C25_GuardsReleased ==
  binding_last.op # "none" =>
    /\ binding_last.guards = << >>
    /\ \A h \in Handles : Leaked(h) = 0 /\ locks[h].readers \in 0 .. MaxReaders
    /\ binding_last.blocked # {} <=> binding_last.res = LockError
    /\ binding_last.blocked = {} =>
         binding_last.res = CoreResult(CoreCall(binding_last.op,
                                                binding_last.handles))

\* verify_signature returned the lock error after it had locked its first
\* issuer document and failed to lock the second.
C25_Witness ==
  /\ binding_last.op = "verify_signature"
  /\ Len(binding_last.handles) = 2
  /\ binding_last.blocked = {binding_last.handles[2]}
  /\ binding_last.handles[1] # binding_last.handles[2]
  /\ binding_last.res = LockError
  /\ binding_last.guards = << >>

\* validate_credential returned the credential.
C25_WitnessSuccess ==
  /\ binding_last.op = "validate_credential"
  /\ binding_last.res.tag = "Core"
  /\ binding_last.res.res.tag = "Ok"
  /\ binding_last.guards = << >>

\* validate_key_binding_jwt returned a validation error.
C25_WitnessError ==
  /\ binding_last.op = "validate_key_binding_jwt"
  /\ binding_last.res.tag = "Core"
  /\ binding_last.res.res.tag # "Ok"
  /\ binding_last.guards = << >>


\* The retained disclosures before call i are ancestor-closed.
AncestorClosed(i) ==
  \A p \in issued.concealable : \A a \in issued.concealable :
    (IsStrictPrefix(a, p) /\ DisclosureFor(p) \in Retained(i)) =>
      DisclosureFor(a) \in Retained(i)

\* C26: after any sequence of conceal, conceal_all and disclose the retained
\* set is ancestor-closed - with the disclosure of a node that of every
\* disclosable ancestor is retained - so that every disclosure of the token
\* finish returns is used when its object is reconstructed (no
\* UnusedDisclosure).
C26_AncestorClosed ==
  /\ \A i \in 1 .. Len(hist) : IsSome(hist[i]) => AncestorClosed(i)
  /\ IsSome(disclosed) => Unwrap(disclosed).tag = "Ok"

\* After conceal_all a node under a disclosable node was disclosed again,
\* and the finished token's object was reconstructed.
C26_Witness ==
  /\ Len(ops) = 2
  /\ ops[1] = Op("conceal_all", << >>, "Ok")
  /\ ops[2].op = "disclose" /\ ops[2].tag = "Ok"
  /\ \E a \in issued.concealable :
       /\ IsStrictPrefix(a, ops[2].path)
       /\ DisclosureFor(a) \in Retained(3)
  /\ DisclosureFor(ops[2].path) \in Retained(3)
  /\ IsSome(disclosed)
  /\ Unwrap(disclosed).tag = "Ok"


\* validate_credential was called on a token whose JWS verifies and whose
\* claims are reconstructed and shaped into a credential, so that the checks
\* on the credential are reached.
CredentialReached ==
  /\ last.op = "validate_credential"
  /\ JwsVerified /\ ClaimsReconstructed /\ CredentialShaped

\* The credential is expired.
Expired ==
  IsSome(sd_jwt.jws.claims.exp) /\ Unwrap(sd_jwt.jws.claims.exp) < now

\* The credential's issuer is a DID other than that of the signing method.
IssuerDidMismatch ==
  /\ sd_jwt.jws.claims.iss \in DIDs
  /\ IsSome(SigningMethod)
  /\ sd_jwt.jws.claims.iss # Unwrap(SigningMethod).did

\* C27 as stated: the issuer binding is checked before the dates, so that a
\* token that violates a temporal bound and whose issuer DID is not the
\* signing method's fails with IdentifierMismatch{Issuer}.
C27_BindingBeforeTemporal ==
  (CredentialReached /\ ~TemporalOk /\ IssuerDidMismatch) =>
    (last.res.tag = "IdentifierMismatch" /\ last.res.ctx = "Issuer")

\* C27, amended: the dates and the structure are validated before the issuer
\* binding is checked.  A token that violates a temporal bound and whose
\* issuer DID is not the signing method's fails with the temporal error
\* (ExpirationDate when it is expired), and one that violates none fails
\* with IdentifierMismatch{Issuer}.
C27_TemporalBeforeBinding ==
  CredentialReached =>
    /\ (~TemporalOk /\ IssuerDidMismatch) =>
         /\ last.res.line = 113
         /\ last.res.tag \in {"ExpirationDate", "IssuanceDate", "MissingBaseContext"}
    /\ (Expired /\ IssuerDidMismatch) =>
         last.res = CredErr("ExpirationDate", "-", 113)
    /\ (TemporalOk /\ IssuerDidMismatch) =>
         (last.res.tag = "IdentifierMismatch" /\ last.res.ctx = "Issuer")

\* An expired credential whose issuer is another DID than the signer's was
\* rejected as expired.
C27_Witness ==
  /\ CredentialReached
  /\ Expired
  /\ IssuerDidMismatch
  /\ last.res = CredErr("ExpirationDate", "-", 113)

\* A credential within its dates whose issuer is another DID than the
\* signer's was rejected with IdentifierMismatch{Issuer}.
C27_WitnessMismatch ==
  /\ CredentialReached
  /\ TemporalOk
  /\ IssuerDidMismatch
  /\ last.res.tag = "IdentifierMismatch"


\* The KB-JWT of the token (where there is one) and the key the cnf resolves
\* to in the holder document.
KbJwt == Unwrap(sd_jwt.kb)

ResolvedHolderKey == HolderPk(Unwrap(sd_jwt.jws.claims.cnf), holder_doc).key

\* What each check of validate_key_binding_jwt would find on its own.
KbMissing == sd_jwt.kb = None

HolderKeyUnresolved == ~IsSome(ResolvedHolderKey)

KbSignatureBad ==
  ~KbJwt.wellFormed \/ KbJwt.signedBy # Unwrap(ResolvedHolderKey)

HasherBad == TokenSdAlg # hasher

SdHashBad == KbJwt.claims.sd_hash # EncodedDigest(hasher, PresentedPrefix(sd_jwt))

NonceBad == IsSome(options.nonce) /\ Unwrap(options.nonce) # KbJwt.claims.nonce

AudBad == IsSome(options.aud) /\ Unwrap(options.aud) # KbJwt.claims.aud

IatBad ==
  \/ KbJwt.claims.iat \notin Time
  \/ /\ IsSome(options.earliest_issuance_date)
     /\ KbJwt.claims.iat < Unwrap(options.earliest_issuance_date)
  \/ KbJwt.claims.iat > IatUpperBound

\* The error tags of the first check that fails, in the order KB-JWT
\* missing, holder key, signature, hasher, sd_hash, nonce, aud, iat.
FirstFailingKbCheck ==
  IF KbMissing THEN {"MissingKeyBindingJwt"}
  ELSE IF HolderKeyUnresolved
  THEN {"DeserializationError", "MethodDataLookupError", "DocumentMismatch",
        "UnsupportedCnfMethod"}
  ELSE IF KbSignatureBad THEN {"JwsDecodingError", "Signature"}
  ELSE IF HasherBad THEN {"InvalidHasher"}
  ELSE IF SdHashBad THEN {"InvalidDigest"}
  ELSE IF NonceBad THEN {"InvalidNonce"}
  ELSE IF AudBad THEN {"AudienceMismatch"}
  ELSE IF IatBad THEN {"IssuanceDate"}
  ELSE {"Ok"}

\* C28: validate_key_binding_jwt on a token with cnf reports the first
\* failing check in the order KB-JWT missing, holder key resolution,
\* KB-JWT signature, hasher, sd_hash, nonce, aud, iat bounds, whatever the
\* later checks would find: a bad signature with a wrong nonce gives
\* Signature{Holder}, a wrong nonce with a wrong aud gives InvalidNonce.
C28_FirstFailingCheck ==
  (KbCalled /\ IsSome(sd_jwt.jws.claims.cnf)) =>
    /\ last.res.tag \in FirstFailingKbCheck
    /\ ( /\ ~KbMissing /\ ~HolderKeyUnresolved
         /\ KbJwt.wellFormed /\ KbSignatureBad /\ NonceBad ) =>
         last.res = KbErr("Signature", "Holder", "-", 303)
    /\ ( /\ ~KbMissing /\ ~HolderKeyUnresolved /\ ~KbSignatureBad
         /\ ~HasherBad /\ ~SdHashBad /\ NonceBad /\ AudBad ) =>
         last.res.tag = "InvalidNonce"

\* A KB-JWT under the options' nonce and aud, both differing from its own,
\* was rejected with InvalidNonce.
C28_Witness ==
  /\ KbCalled
  /\ IsSome(sd_jwt.jws.claims.cnf)
  /\ ~KbMissing /\ ~HolderKeyUnresolved /\ ~KbSignatureBad
  /\ ~HasherBad /\ ~SdHashBad /\ NonceBad /\ AudBad
  /\ last.res.tag = "InvalidNonce"

\* A KB-JWT signed with another key than the holder's, under the options'
\* nonce differing from its own, was rejected with Signature{Holder}.
C28_WitnessSignature ==
  /\ KbCalled
  /\ IsSome(sd_jwt.jws.claims.cnf)
  /\ ~KbMissing /\ ~HolderKeyUnresolved
  /\ KbJwt.wellFormed /\ KbSignatureBad /\ NonceBad
  /\ last.res = KbErr("Signature", "Holder", "-", 303)


\* validate_key_binding_jwt gets as far as the upper bound on iat: every
\* earlier check passes.
IatUpperBoundReached ==
  /\ KbCalled
  /\ IsSome(sd_jwt.jws.claims.cnf)
  /\ ~KbMissing /\ ~HolderKeyUnresolved /\ ~KbSignatureBad
  /\ ~HasherBad /\ ~SdHashBad /\ ~NonceBad /\ ~AudBad
  /\ KbJwt.claims.iat \in Time
  /\ IsSome(options.earliest_issuance_date) =>
       KbJwt.claims.iat >= Unwrap(options.earliest_issuance_date)

\* C29: with latest_issuance_date set, validate_key_binding_jwt does not
\* compare the KB-JWT's iat with the current time: its result is the same
\* at every time, and a KB-JWT whose iat is in the future but not later than
\* latest_issuance_date passes the iat check.
C29_LatestReplacesNow ==
  (KbCalled /\ IsSome(options.latest_issuance_date)) =>
    /\ \A t \in Time :
         ValidateKeyBindingJwt(sd_jwt, holder_doc, options, hasher, t) = last.res
    /\ ( /\ IatUpperBoundReached
         /\ KbJwt.claims.iat > now
         /\ KbJwt.claims.iat <= Unwrap(options.latest_issuance_date) ) =>
         last.res = KbOk(368)

\* A KB-JWT issued after the current time and not after latest_issuance_date
\* was accepted.
C29_Witness ==
  /\ KbCalled
  /\ IsSome(options.latest_issuance_date)
  /\ IatUpperBoundReached
  /\ KbJwt.claims.iat > now
  /\ KbJwt.claims.iat <= Unwrap(options.latest_issuance_date)
  /\ last.res = KbOk(368)


---------------------------------------------------------------------------
\* The reserved claims of an SdJwtVc's parsed claims.
ReservedOf(c) ==
  [iss |-> c.iss, nbf |-> c.nbf, exp |-> c.exp, vct |-> c.vct,
   status |-> c.status, iat |-> c.iat, sub |-> c.sub]

\* C30: whatever successful conceal, conceal_all and disclose calls were made
\* between SdJwtVcPresentationBuilder::new(token) and finish, the finished
\* SD-JWT VC has the reserved claims (iss, nbf, exp, vct, status, iat, sub)
\* and the JWS of the token the builder was made from; and when no call was
\* made, the finished token is the input token, claims and disclosures
\* included, and the list of removed disclosures is empty.
C30_FinishFrame ==
  IsSome(finished) =>
    LET out == Unwrap(finished)
    IN /\ ReservedOf(out.token.parsed_claims) = ReservedOf(issued.token.parsed_claims)
       /\ out.token.sd_jwt.jws = issued.token.sd_jwt.jws
       /\ ops = << >> => /\ out.token = issued.token
                         /\ out.disclosures = << >>

\* A builder was finished after MaxOps successful calls that removed at least
\* one disclosure of a token with a concealable path under another.
C30_Witness ==
  /\ IsSome(finished)
  /\ Len(ops) = MaxOps
  /\ \A i \in 1 .. Len(ops) : ops[i].tag = "Ok"
  /\ Unwrap(finished).disclosures # << >>
  /\ Unwrap(finished).token.sd_jwt.disclosures # issued.token.sd_jwt.disclosures
  /\ \E a \in issued.concealable, q \in issued.concealable : IsStrictPrefix(a, q)

\* A builder of a token with disclosures was finished without any call.
C30_WitnessEmpty ==
  /\ IsSome(finished)
  /\ ops = << >>
  /\ issued.token.sd_jwt.disclosures # << >>

===========================================================================
